---------------------------- MODULE Spec2Model ----------------------------
(***************************************************************************)
(* Model of reinicke_v2_airtable_replace.py: the scraper's enrichment      *)
(* (cache, classify, summarize), record keys, validity filter, rent        *)
(* override and the Airtable reconciliation (full replace / incremental).  *)
(*                                                                         *)
(* Python strings are TLA+ strings (TLC evaluates Len, \o and SubSeq on    *)
(* them); a record (dict) is a function from field names to values, a      *)
(* missing dict key is a missing domain element.                           *)
(*                                                                         *)
(* TLC keeps the strings of a state in 8-bit characters once its state     *)
(* queue spills to disk, so text is written in ASCII here: the source's    *)
(* a-umlaut, o-umlaut, u-umlaut and sharp s are written ae, oe, ue and ss  *)
(* ("Grundstueck", "buero"), the euro sign is written $ and the            *)
(* superscript two ^2 ("m^2").                                             *)
(***************************************************************************)
EXTENDS Integers, Sequences, FiniteSets, TLC

VARIABLES
    hashseed,       \* the per-process salt of Python's hash()
    kprev, kcur,    \* unique_key: the last two records keyed, with their keys
    vmode,          \* validity: which operation the records go through
    vrecs,          \* validity: the records (scraped rows, or the store's records)
    vout,           \* validity: the rows kept by the filter / left in the store
    vdel,           \* validity: the store ids the sweep deleted
    vres,           \* validity: "" before the operation, then its outcome
    FULL_REPLACE,   \* sync: the mode switch
    all_rows,       \* sync: the validated rows of this run
    store,          \* sync: the Airtable table
    nextId,         \* sync: the id the store gives the next created record
    listed,         \* sync: what airtable_list_all returned to the sync
    desired,        \* sync: the de-duplicated desired dict (incremental mode)
    to_create, to_update, to_delete_ids,    \* sync: the scheduled mutations
    log,            \* sync: the requests issued to the store, in order
    pc,             \* sync: where run() is
    OPENAI_API_KEY,             \* enrichment: the model key ("" = not configured)
    KURZBESCHREIBUNG_CACHE,     \* enrichment: {objektnummer: kurzbeschreibung}
    UNTERKATEGORIE_CACHE,       \* enrichment: {objektnummer: unterkategorie}
    cache_status,               \* enrichment: "" before load_caches, then how it went
    model_calls,                \* enrichment: requests sent to the model service
    eprev, ecur,                \* enrichment: the last two calls, with their results
    xlisting,       \* extraction: the viewer document of one listing
    xheader,        \* extraction: the overview-page header above the listing's link
    xdata,          \* extraction: prop_data as extracted from the document
    xprop,          \* extraction: prop_data as collect_all_properties leaves it
    xrecord,        \* extraction: the record make_record builds
    xpc,            \* extraction: where the listing is
    reachable,      \* run: "" before the probe, then "yes" or "no"
    AIRTABLE_TOKEN, \* run: the store credentials ("" = not set)
    detail_data,    \* run: the listings linked on the overview page
    scraped,        \* run: the records made from the listings collected
    csv_file,       \* run: the export file
    fetch_stage,    \* fetch: which document the scraper is loading
    listing_no,     \* fetch: the number of the listing being loaded
    loaded,         \* fetch: the listings whose documents were loaded
    skipped,        \* fetch: the listings given up
    max_retries,    \* soup_get: the attempt cap of this call
    attempt,        \* soup_get: the loop variable
    requests_made,  \* soup_get: the requests this call has sent
    waits,          \* soup_get: the backoff waits of this call, in order
    answers,        \* soup_get: what the requests of this call met, in order
    last_error,     \* soup_get: the last error kept for the final raise
    fetch_pc        \* soup_get: "call", "returned", or the error raised

procVars  == <<hashseed>>
keyVars   == <<kprev, kcur>>
validVars == <<vmode, vrecs, vout, vdel, vres>>

syncVars  == <<FULL_REPLACE, all_rows, store, nextId, listed, desired,
               to_create, to_update, to_delete_ids, log, pc>>

\* what the actions of one specification leave alone
enrichVars == <<OPENAI_API_KEY, KURZBESCHREIBUNG_CACHE, UNTERKATEGORIE_CACHE,
                cache_status, model_calls, eprev, ecur>>

extractVars == <<xlisting, xheader, xdata, xprop, xrecord, xpc>>

mainVars == <<reachable, AIRTABLE_TOKEN, detail_data, scraped, csv_file>>

fetchVars == <<fetch_stage, listing_no, loaded, skipped, max_retries, attempt,
               requests_made, waits, answers, last_error, fetch_pc>>

exceptKey     == <<validVars, syncVars, enrichVars, extractVars, mainVars, fetchVars>>
exceptValid   == <<keyVars, syncVars, enrichVars, extractVars, mainVars, fetchVars>>
exceptSync    == <<keyVars, validVars, enrichVars, extractVars, mainVars, fetchVars>>
exceptEnrich  == <<keyVars, validVars, syncVars, extractVars, mainVars, fetchVars>>
exceptExtract == <<keyVars, validVars, syncVars, mainVars, fetchVars>>
exceptMain    == <<keyVars, validVars, enrichVars, extractVars, fetchVars>>
exceptFetch   == <<keyVars, validVars, syncVars, enrichVars, extractVars, mainVars>>

(***************************************************************************)
(* Bounds of the model.                                                    *)
(***************************************************************************)
HashMod == 5        \* hash() values are taken modulo this (64 bit in Python)
MaxSeed == 1        \* hash salts 0..MaxSeed
MaxRows == 2        \* records per validity check
MaxDesired == 3     \* rows per run handed to the sync
MaxStore == 2       \* records in the store when the run starts
MaxCacheRows == 1   \* records in the store of a run that enriches listings
MaxRemote == 2      \* records in the store of a run that only loads the caches
MaxModelCalls == 2  \* requests to the model service per behaviour
MaxMainStore == 1   \* records in the store when a whole run starts
MaxListings == 2    \* listings on the overview page of a whole run
OverviewRetries == 3    \* max_retries of the overview page's soup_get
DetailRetries == 2      \* max_retries of a listing's soup_get calls

(***************************************************************************)
(* String helpers: str.strip, str.lower, str.replace, `in`, str.split.     *)
(***************************************************************************)
IsSpace(c) == c \in {" ", "\n", "\t"}

RECURSIVE lstrip(_)
lstrip(s) == IF Len(s) > 0 /\ IsSpace(SubSeq(s, 1, 1))
             THEN lstrip(SubSeq(s, 2, Len(s))) ELSE s

RECURSIVE rstrip(_)
rstrip(s) == IF Len(s) > 0 /\ IsSpace(SubSeq(s, Len(s), Len(s)))
             THEN rstrip(SubSeq(s, 1, Len(s) - 1)) ELSE s

strip(s) == rstrip(lstrip(s))

\* k in s (substring test)
Contains(k, s) == \E i \in 1..(Len(s) - Len(k) + 1) : SubSeq(s, i, i + Len(k) - 1) = k

StartsWith(s, p) == Len(s) >= Len(p) /\ SubSeq(s, 1, Len(p)) = p

\* s.replace(old, new): every non-overlapping occurrence, left to right
RECURSIVE replace(_, _, _)
replace(s, old, new) ==
    IF Len(s) < Len(old) \/ Len(old) = 0 THEN s
    ELSE IF SubSeq(s, 1, Len(old)) = old
         THEN new \o replace(SubSeq(s, Len(old) + 1, Len(s)), old, new)
         ELSE SubSeq(s, 1, 1) \o replace(SubSeq(s, 2, Len(s)), old, new)

UpperChars == "ABCDEFGHIJKLMNOPQRSTUVWXYZ"
LowerChars == "abcdefghijklmnopqrstuvwxyz"

lowerChar(c) ==
    IF \E i \in 1..Len(UpperChars) : SubSeq(UpperChars, i, i) = c
    THEN LET i == CHOOSE j \in 1..Len(UpperChars) : SubSeq(UpperChars, j, j) = c
         IN  SubSeq(LowerChars, i, i)
    ELSE c

RECURSIVE lower(_)
lower(s) == IF Len(s) = 0 THEN "" ELSE lowerChar(SubSeq(s, 1, 1)) \o lower(SubSeq(s, 2, Len(s)))

\* s.split(sep) for a one-character sep: the list of pieces
RECURSIVE split(_, _)
split(s, sep) ==
    IF ~Contains(sep, s) THEN <<s>>
    ELSE LET i == CHOOSE j \in 1..Len(s) :
                    /\ SubSeq(s, j, j) = sep
                    /\ \A h \in 1..(j - 1) : SubSeq(s, h, h) # sep
         IN  <<SubSeq(s, 1, i - 1)>> \o split(SubSeq(s, i + 1, Len(s)), sep)

RECURSIVE join(_, _)
join(sep, parts) ==
    IF Len(parts) = 0 THEN ""
    ELSE IF Len(parts) = 1 THEN parts[1]
    ELSE parts[1] \o sep \o join(sep, Tail(parts))

Digits == "0123456789"
IsDigit(c) == \E i \in 1..10 : SubSeq(Digits, i, i) = c
DigitVal(c) == (CHOOSE i \in 1..10 : SubSeq(Digits, i, i) = c) - 1

\* str(n) of a natural number, and of an integer
RECURSIVE NatToStr(_)
NatToStr(n) == IF n < 10 THEN SubSeq(Digits, n + 1, n + 1)
               ELSE NatToStr(n \div 10) \o SubSeq(Digits, (n % 10) + 1, (n % 10) + 1)

IntToStr(n) == IF n < 0 THEN "-" \o NatToStr(0 - n) ELSE NatToStr(n)

(***************************************************************************)
(* Records.  Preis is the one numeric field (make_record stores a float);  *)
(* every other field holds a string.                                       *)
(***************************************************************************)
NumFields == {"Preis"}

\* dict.get(f) or "": a missing (or empty) string field reads as ""
GetStr(fields, f) == IF f \in DOMAIN fields THEN fields[f] ELSE ""

\* sorted(fields.keys()): the field names in json.dumps(sort_keys=True) order
SortedFieldNames == <<"Beschreibung", "Bild", "Kategorie", "Kurzbeschreibung", "Notiz",
                      "Objektnummer", "Preis", "Standort", "Titel", "Unterkategorie",
                      "Webseite">>

RECURSIVE json_items(_, _)
json_items(fields, i) ==
    IF i > Len(SortedFieldNames) THEN <<>>
    ELSE LET f == SortedFieldNames[i]
         IN  (IF f \in DOMAIN fields
              THEN <<"\"" \o f \o "\": " \o
                     (IF f \in NumFields THEN IntToStr(fields[f]) \o ".0"
                      ELSE "\"" \o fields[f] \o "\"")>>
              ELSE <<>>) \o json_items(fields, i + 1)

\* json.dumps(fields, sort_keys=True)
json_dumps(fields) == "{" \o join(", ", json_items(fields, 1)) \o "}"

\* Python's salted hash() of a string, narrowed to HashMod values around 0
HashAlphabet == " !\"{}:,.-_0123456789abcdefghijklmnopqrstuvwxyz$^@#ABCDEFGHIJKLMNOPQRSTUVWXYZ"
CharCode(c) == IF \E i \in 1..Len(HashAlphabet) : SubSeq(HashAlphabet, i, i) = c
               THEN CHOOSE i \in 1..Len(HashAlphabet) : SubSeq(HashAlphabet, i, i) = c
               ELSE 0

\* 31^e modulo HashMod
RECURSIVE powmod(_)
powmod(e) ==
    IF e = 0 THEN 1 % HashMod
    ELSE LET h == powmod(e \div 2)
         IN  (h * h * (IF e % 2 = 1 THEN 31 ELSE 1)) % HashMod

\* the polynomial sum of s[1]*31^(n-1) + ... + s[n] modulo HashMod
RECURSIVE polyhash(_)
polyhash(s) ==
    IF Len(s) = 0 THEN 0
    ELSE IF Len(s) = 1 THEN CharCode(s) % HashMod
    ELSE LET m == Len(s) \div 2
             a == SubSeq(s, 1, m)
             b == SubSeq(s, m + 1, Len(s))
         IN  (polyhash(a) * powmod(Len(b)) + polyhash(b)) % HashMod

hash(s) == ((hashseed * powmod(Len(s)) + polyhash(s)) % HashMod) - (HashMod \div 2)

(***************************************************************************)
(* unique_key                                                              *)
(***************************************************************************)
unique_key_url_first(fields) ==
    LET obj == strip(GetStr(fields, "Objektnummer"))
        url == strip(GetStr(fields, "Webseite"))
    IN  IF url # "" THEN "url:" \o url
        ELSE IF obj # "" THEN "obj:" \o obj
        ELSE "hash:" \o IntToStr(hash(json_dumps(fields)))

unique_key(fields) ==
    LET obj == strip(GetStr(fields, "Objektnummer"))
        url == strip(GetStr(fields, "Webseite"))
    IN  IF obj # "" THEN "obj:" \o obj
        ELSE IF url # "" THEN "url:" \o url
        ELSE "hash:" \o IntToStr(hash(json_dumps(fields)))

(***************************************************************************)
(* Specification SpecKey: unique_key applied to records drawn from         *)
(* KeyRecords, the last two applications kept for comparison.              *)
(***************************************************************************)
OptField(f, vals) == {<<>>} \cup {<<f, v>> : v \in vals}

\* a record from a set of (field, value) pairs
MkRec(pairs) == [f \in {p[1] : p \in pairs} |-> (CHOOSE p \in pairs : p[1] = f)[2]]

KeyRecords ==
    { MkRec({o, w, t} \ {<<>>}) :
        o \in OptField("Objektnummer", {"", " ", "A", " A ", "B"}),
        w \in OptField("Webseite", {"", "u", " u"}),
        t \in OptField("Titel", {"T"}) }

NoKey == [fields |-> <<>>, key |-> "", done |-> FALSE]

IdleKey == kprev = NoKey /\ kcur = NoKey

InitKey ==
    /\ hashseed \in 0..MaxSeed
    /\ kprev = NoKey
    /\ kcur = NoKey

ComputeKey ==
    \E f \in KeyRecords :
        /\ kprev' = kcur
        /\ kcur' = [fields |-> f, key |-> unique_key(f), done |-> TRUE]
        /\ UNCHANGED <<procVars, exceptKey>>

NextKey == ComputeKey

(***************************************************************************)
(* The store (Airtable table): a list of records [id, fields], in the      *)
(* order airtable_list_all returns them.  Requests go in batches of        *)
(* BatchSize; a failed request raises and ends the batch loop.             *)
(***************************************************************************)
BatchSize == 10

BoundedSeq(S, n) == UNION {[1..k -> S] : k \in 0..n}

SeqToSet(q) == {q[i] : i \in 1..Len(q)}

\* number of requests a batch loop over n items makes
NumBatches(n) == (n + BatchSize - 1) \div BatchSize

\* the items covered by the first k batches
BatchPrefix(items, k) ==
    SubSeq(items, 1, IF k * BatchSize < Len(items) THEN k * BatchSize ELSE Len(items))

\* airtable_batch_delete, the first k requests of it
StoreDelete(st, record_ids, k) ==
    LET gone == SeqToSet(BatchPrefix(record_ids, k))
    IN  SelectSeq(st, LAMBDA r : r.id \notin gone)

(***************************************************************************)
(* is_valid_record, filter_valid_records, cleanup_empty_airtable_records   *)
(***************************************************************************)
\* a value that counts as filled: a non-blank str, or an int/float > 0
IsFilled(record, f) ==
    IF f \in NumFields THEN record[f] > 0 ELSE strip(record[f]) # ""

is_valid_record_and(record) ==
    LET titel    == strip(GetStr(record, "Titel"))
        webseite == strip(GetStr(record, "Webseite"))
    IN  IF titel = "" /\ webseite = "" THEN FALSE
        ELSE Cardinality({f \in DOMAIN record : IsFilled(record, f)}) >= 3

is_valid_record(record) ==
    LET titel    == strip(GetStr(record, "Titel"))
        webseite == strip(GetStr(record, "Webseite"))
    IN  IF titel = "" \/ webseite = "" THEN FALSE
        ELSE Cardinality({f \in DOMAIN record : IsFilled(record, f)}) >= 3

filter_valid_records(records) == SelectSeq(records, is_valid_record)

\* the to_delete list of cleanup_empty_airtable_records
cleanup_to_delete(st) ==
    LET bad == SelectSeq(st, LAMBDA r : ~is_valid_record(r.fields))
    IN  [i \in 1..Len(bad) |-> bad[i].id]

(***************************************************************************)
(* Specification SpecValid: the validity filter and the sweep, each        *)
(* applied to a list of records drawn from ValidRecords.                   *)
(***************************************************************************)
\* rows as make_record builds them: the nine string fields always, Preis
\* only when a price was parsed
RowRecords ==
    { MkRec(({<<"Titel", t>>, <<"Kategorie", "Kaufen">>, <<"Unterkategorie", "Haus">>,
              <<"Webseite", "u">>, <<"Objektnummer", o>>, <<"Beschreibung", "">>,
              <<"Kurzbeschreibung", k>>, <<"Bild", "">>, <<"Standort", "">>, p}) \ {<<>>}) :
        t \in {"", "T"},
        o \in {"", "A"},
        k \in {"", "Preis: 450000 $"},
        p \in OptField("Preis", {450000}) }

\* records as the store may hold them: any field may be missing, blank or 0
SweepRecords ==
    { MkRec({t, w, p, o} \ {<<>>}) :
        t \in OptField("Titel", {" ", "T"}),
        w \in OptField("Webseite", {"u"}),
        p \in OptField("Preis", {0, 5, 0 - 5}),
        o \in OptField("Standort", {"S"}) }

\* records as the store lists them: ids are the positions
AsStore(recs) == [i \in 1..Len(recs) |-> [id |-> i, fields |-> recs[i]]]

IdleValid ==
    /\ vmode = "" /\ vrecs = <<>> /\ vout = <<>> /\ vdel = {} /\ vres = ""

InitValid ==
    /\ hashseed = 0
    /\ vmode \in {"filter", "sweep"}
    /\ vrecs \in BoundedSeq(IF vmode = "filter" THEN RowRecords ELSE SweepRecords, MaxRows)
    /\ vout = <<>>
    /\ vdel = {}
    /\ vres = ""

\* all_rows = filter_valid_records(all_rows)
FilterValid ==
    /\ vmode = "filter" /\ vres = ""
    /\ vout' = filter_valid_records(vrecs)
    /\ vres' = "ok"
    /\ UNCHANGED <<vmode, vrecs, vdel, procVars, exceptValid>>

\* cleanup_empty_airtable_records on a store holding vrecs: the listing may
\* raise, and so may any delete request; both are caught and end the sweep
Sweep ==
    /\ vmode = "sweep" /\ vres = ""
    /\ \/ /\ vres' = "list_failed"
          /\ vout' = AsStore(vrecs)
          /\ vdel' = {}
       \/ LET st        == AsStore(vrecs)
              to_delete == cleanup_to_delete(st)
          IN  \E k \in 0..NumBatches(Len(to_delete)) :
                /\ vout' = StoreDelete(st, to_delete, k)
                /\ vdel' = SeqToSet(BatchPrefix(to_delete, k))
                /\ vres' = IF k = NumBatches(Len(to_delete)) THEN "ok" ELSE "delete_failed"
    /\ UNCHANGED <<vmode, vrecs, procVars, exceptValid>>

NextValid == FilterValid \/ Sweep

(***************************************************************************)
(* The sync of run(): full replace, or the incremental plan (existing,     *)
(* desired, to_create, to_update, to_delete_ids) and its application.      *)
(***************************************************************************)
\* airtable_existing_fields
airtable_existing_fields == {}

ALWAYS_ALLOWED == {"Kurzbeschreibung"}

sanitize_record_for_airtable(record, allowed_fields) ==
    IF allowed_fields = {} THEN record
    ELSE [f \in DOMAIN record \cap (allowed_fields \cup ALWAYS_ALLOWED) |-> record[f]]

\* the keys of a list of field maps, in first-seen order (dict insertion order)
RECURSIVE key_order(_, _)
key_order(fieldmaps, seen) ==
    IF Len(fieldmaps) = 0 THEN <<>>
    ELSE LET k == unique_key(Head(fieldmaps))
         IN  IF k \in seen THEN key_order(Tail(fieldmaps), seen)
             ELSE <<k>> \o key_order(Tail(fieldmaps), seen \cup {k})

\* existing[k] = (rec_id, f): a later record with the same key replaces an
\* earlier one
RECURSIVE existing_of(_, _)
existing_of(st, acc) ==
    IF Len(st) = 0 THEN acc
    ELSE LET k   == unique_key(Head(st).fields)
             old == [x \in DOMAIN acc \ {k} |-> acc[x]]
         IN  existing_of(Tail(st), old @@ (k :> Head(st)))

\* the desired dict: of rows sharing a key, a later one replaces the kept one
\* only if its Beschreibung is strictly longer
RECURSIVE desired_of_last_wins(_, _, _)
desired_of_last_wins(rows, allowed, acc) ==
    IF Len(rows) = 0 THEN acc
    ELSE LET r == Head(rows)
             k == unique_key(r)
         IN  IF k \in DOMAIN acc
             THEN IF Len(GetStr(r, "Beschreibung")) >= Len(GetStr(acc[k], "Beschreibung"))
                  THEN desired_of_last_wins(Tail(rows), allowed,
                         [x \in DOMAIN acc |->
                            IF x = k THEN sanitize_record_for_airtable(r, allowed) ELSE acc[x]])
                  ELSE desired_of_last_wins(Tail(rows), allowed, acc)
             ELSE desired_of_last_wins(Tail(rows), allowed,
                         acc @@ (k :> sanitize_record_for_airtable(r, allowed)))

RECURSIVE desired_of(_, _, _)
desired_of(rows, allowed, acc) ==
    IF Len(rows) = 0 THEN acc
    ELSE LET r == Head(rows)
             k == unique_key(r)
         IN  IF k \in DOMAIN acc
             THEN IF Len(GetStr(r, "Beschreibung")) > Len(GetStr(acc[k], "Beschreibung"))
                  THEN desired_of(Tail(rows), allowed,
                         [x \in DOMAIN acc |->
                            IF x = k THEN sanitize_record_for_airtable(r, allowed) ELSE acc[x]])
                  ELSE desired_of(Tail(rows), allowed, acc)
             ELSE desired_of(Tail(rows), allowed,
                         acc @@ (k :> sanitize_record_for_airtable(r, allowed)))

\* diff = {fld: val for fld, val in fields.items() if old.get(fld) != val}
field_diff_all(fields, old) == fields

field_diff(fields, old) ==
    [fld \in {f \in DOMAIN fields : f \notin DOMAIN old \/ old[f] # fields[f]} |-> fields[fld]]

\* to_create: the desired records whose key is not in existing
RECURSIVE plan_create_all(_, _, _)
plan_create_all(order, des, existing) ==
    IF Len(order) = 0 THEN <<>>
    ELSE <<des[Head(order)]>> \o plan_create_all(Tail(order), des, existing)

RECURSIVE plan_create(_, _, _)
plan_create(order, des, existing) ==
    IF Len(order) = 0 THEN <<>>
    ELSE (IF Head(order) \in DOMAIN existing THEN <<>> ELSE <<des[Head(order)]>>)
         \o plan_create(Tail(order), des, existing)

\* to_update: for the desired records whose key is in existing, the non-empty diffs
RECURSIVE plan_update(_, _, _)
plan_update(order, des, existing) ==
    IF Len(order) = 0 THEN <<>>
    ELSE LET k == Head(order)
         IN  (IF k \in DOMAIN existing
              THEN LET diff == field_diff(des[k], existing[k].fields)
                   IN  IF DOMAIN diff # {}
                       THEN <<[id |-> existing[k].id, fields |-> diff]>>
                       ELSE <<>>
              ELSE <<>>)
             \o plan_update(Tail(order), des, existing)

\* plan_delete without the keep set: every id in existing is scheduled
RECURSIVE plan_delete_all(_, _, _)
plan_delete_all(order, existing, keep) ==
    IF Len(order) = 0 THEN <<>>
    ELSE <<existing[Head(order)].id>> \o plan_delete_all(Tail(order), existing, keep)

\* to_delete_ids: the ids in existing whose key was not kept
RECURSIVE plan_delete(_, _, _)
plan_delete(order, existing, keep) ==
    IF Len(order) = 0 THEN <<>>
    ELSE (IF Head(order) \in keep THEN <<>> ELSE <<existing[Head(order)].id>>)
         \o plan_delete(Tail(order), existing, keep)

ids_of(st) == [i \in 1..Len(st) |-> st[i].id]
fields_of(st) == [i \in 1..Len(st) |-> st[i].fields]

\* the full-replace branch: every listed id is deleted, every row created
full_replace_plan_stale_only(st, rows) ==
    LET keys == {unique_key(rows[i]) : i \in 1..Len(rows)}
    IN  [des      |-> <<>>,
         create   |-> rows,
         update   |-> <<>>,
         delete   |-> ids_of(SelectSeq(st, LAMBDA r : unique_key(r.fields) \notin keys))]

full_replace_plan(st, rows) ==
    [des |-> <<>>, create |-> rows, update |-> <<>>, delete |-> ids_of(st)]

\* the incremental branch
incremental_plan(st, rows) ==
    LET allowed  == airtable_existing_fields
        existing == existing_of(st, <<>>)
        des      == desired_of(rows, allowed, <<>>)
        order    == key_order(rows, {})
        keep     == DOMAIN des \cap DOMAIN existing
    IN  [des      |-> des,
         create   |-> plan_create(order, des, existing),
         update   |-> plan_update(order, des, existing),
         delete   |-> plan_delete(key_order(fields_of(st), {}), existing, keep)]

\* airtable_batch_create, its first k requests: the store appends the records
\* under fresh ids
StoreCreate(st, first, records, k) ==
    LET made == BatchPrefix(records, k)
    IN  st \o [i \in 1..Len(made) |-> [id |-> first + i - 1, fields |-> made[i]]]

\* one PATCH entry: the diff's fields overwrite the record's, the others stay
apply_update(r, updates) ==
    IF \E i \in 1..Len(updates) : updates[i].id = r.id
    THEN LET u == updates[CHOOSE i \in 1..Len(updates) : updates[i].id = r.id]
         IN  [id |-> r.id, fields |-> u.fields @@ r.fields]
    ELSE r

\* airtable_batch_update, its first k requests
StoreUpdate(st, updates, k) ==
    [i \in 1..Len(st) |-> apply_update(st[i], BatchPrefix(updates, k))]

Request(op, phase, items) == [op |-> op, phase |-> phase, items |-> items]

\* the rows a run hands to the sync: built by make_record and validated
Row(obj, web, beschr) ==
    [Titel |-> "T", Kategorie |-> "Kaufen", Unterkategorie |-> "Haus", Webseite |-> web,
     Objektnummer |-> obj, Beschreibung |-> beschr, Kurzbeschreibung |-> "",
     Bild |-> "", Standort |-> ""]

SyncRows == {Row("A", w, b) : w \in {"u", "v"}, b \in {"x", "xx"}} \cup {Row("", "u", "x")}

\* what the table may hold when the run starts: rows of earlier runs (also
\* twice: full replace creates every row, and the table is edited by hand),
\* rows with a column the scraper does not write, and partial rows
StoreRecords ==
    { Row("A", "u", "x"),
      Row("A", "u", "xx") @@ [Notiz |-> "n"],
      Row("B", "w", "x"),
      Row("", "u", "x"),
      Row("", "", "x") }

\* no sync has begun
IdlePlan ==
    /\ all_rows = <<>>
    /\ listed = <<>> /\ desired = <<>>
    /\ to_create = <<>> /\ to_update = <<>> /\ to_delete_ids = <<>>
    /\ log = <<>> /\ pc = ""

IdleRun == store = <<>> /\ nextId = 0 /\ IdlePlan

IdleSync == FULL_REPLACE = FALSE /\ IdleRun

InitSync ==
    /\ hashseed = 0
    /\ FULL_REPLACE \in BOOLEAN
    /\ all_rows \in BoundedSeq(SyncRows, MaxDesired) \ {<<>>}
    /\ store \in {AsStore(recs) : recs \in BoundedSeq(StoreRecords, MaxStore)}
    /\ nextId = Len(store) + 1
    /\ listed = <<>> /\ desired = <<>>
    /\ to_create = <<>> /\ to_update = <<>> /\ to_delete_ids = <<>>
    /\ log = <<>>
    /\ pc = "sync"

\* airtable_list_all raises: nothing in run() catches it
ListFails ==
    /\ pc = "sync"
    /\ pc' = "list_failed"
    /\ UNCHANGED <<FULL_REPLACE, all_rows, store, nextId, listed, desired,
                   to_create, to_update, to_delete_ids, log, procVars, exceptSync>>

\* airtable_list_all and the scheduling that follows it
ListAndPlan ==
    /\ pc = "sync"
    /\ \E plan \in {IF FULL_REPLACE THEN full_replace_plan(store, all_rows)
                     ELSE incremental_plan(store, all_rows)} :
           /\ listed' = store
           /\ desired' = plan.des
           /\ to_create' = plan.create
           /\ to_update' = plan.update
           /\ to_delete_ids' = plan.delete
    /\ pc' = IF FULL_REPLACE THEN "fr_delete" ELSE "create"
    /\ UNCHANGED <<FULL_REPLACE, all_rows, store, nextId, log, procVars, exceptSync>>

\* full replace: if all_ids: airtable_batch_delete(all_ids)
FullReplaceDelete ==
    /\ pc = "fr_delete"
    /\ IF Len(to_delete_ids) = 0
       THEN /\ pc' = "fr_create"
            /\ UNCHANGED <<store, log>>
       ELSE \E k \in 0..NumBatches(Len(to_delete_ids)) :
              /\ store' = StoreDelete(store, to_delete_ids, k)
              /\ log' = log \o [i \in 1..k |-> Request("delete", "sync", to_delete_ids)]
              /\ pc' = IF k = NumBatches(Len(to_delete_ids)) THEN "fr_create" ELSE "aborted"
    /\ UNCHANGED <<FULL_REPLACE, all_rows, nextId, listed, desired,
                   to_create, to_update, to_delete_ids, procVars, exceptSync>>

\* full replace: airtable_batch_create(all_rows)
FullReplaceCreate ==
    /\ pc = "fr_create"
    /\ \E k \in 0..NumBatches(Len(to_create)) :
          /\ store' = StoreCreate(store, nextId, to_create, k)
          /\ nextId' = nextId + Len(BatchPrefix(to_create, k))
          /\ log' = log \o [i \in 1..k |-> Request("create", "sync", to_create)]
          /\ pc' = IF k = NumBatches(Len(to_create)) THEN "cleanup" ELSE "aborted"
    /\ UNCHANGED <<FULL_REPLACE, all_rows, listed, desired,
                   to_create, to_update, to_delete_ids, procVars, exceptSync>>

\* incremental: if to_create: airtable_batch_create(to_create)
IncrementalCreate ==
    /\ pc = "create"
    /\ IF Len(to_create) = 0
       THEN /\ pc' = "update"
            /\ UNCHANGED <<store, nextId, log>>
       ELSE \E k \in 0..NumBatches(Len(to_create)) :
              /\ store' = StoreCreate(store, nextId, to_create, k)
              /\ nextId' = nextId + Len(BatchPrefix(to_create, k))
              /\ log' = log \o [i \in 1..k |-> Request("create", "sync", to_create)]
              /\ pc' = IF k = NumBatches(Len(to_create)) THEN "update" ELSE "aborted"
    /\ UNCHANGED <<FULL_REPLACE, all_rows, listed, desired,
                   to_create, to_update, to_delete_ids, procVars, exceptSync>>

\* incremental: if to_update: airtable_batch_update(to_update)
IncrementalUpdate ==
    /\ pc = "update"
    /\ IF Len(to_update) = 0
       THEN /\ pc' = "delete"
            /\ UNCHANGED <<store, log>>
       ELSE \E k \in 0..NumBatches(Len(to_update)) :
              /\ store' = StoreUpdate(store, to_update, k)
              /\ log' = log \o [i \in 1..k |-> Request("update", "sync", to_update)]
              /\ pc' = IF k = NumBatches(Len(to_update)) THEN "delete" ELSE "aborted"
    /\ UNCHANGED <<FULL_REPLACE, all_rows, nextId, listed, desired,
                   to_create, to_update, to_delete_ids, procVars, exceptSync>>

\* incremental: if to_delete_ids: airtable_batch_delete(to_delete_ids)
IncrementalDelete ==
    /\ pc = "delete"
    /\ IF Len(to_delete_ids) = 0
       THEN /\ pc' = "cleanup"
            /\ UNCHANGED <<store, log>>
       ELSE \E k \in 0..NumBatches(Len(to_delete_ids)) :
              /\ store' = StoreDelete(store, to_delete_ids, k)
              /\ log' = log \o [i \in 1..k |-> Request("delete", "sync", to_delete_ids)]
              /\ pc' = IF k = NumBatches(Len(to_delete_ids)) THEN "cleanup" ELSE "aborted"
    /\ UNCHANGED <<FULL_REPLACE, all_rows, nextId, listed, desired,
                   to_create, to_update, to_delete_ids, procVars, exceptSync>>

\* cleanup_empty_airtable_records: its own listing or a delete request may
\* raise; the function catches that and returns
Cleanup ==
    /\ pc = "cleanup"
    /\ \/ UNCHANGED <<store, log>>
       \/ LET to_delete == cleanup_to_delete(store)
          IN  /\ Len(to_delete) > 0
              /\ \E k \in 0..NumBatches(Len(to_delete)) :
                    /\ store' = StoreDelete(store, to_delete, k)
                    /\ log' = log \o [i \in 1..k |-> Request("delete", "sweep", to_delete)]
    /\ pc' = "done"
    /\ UNCHANGED <<FULL_REPLACE, all_rows, nextId, listed, desired,
                   to_create, to_update, to_delete_ids, procVars, exceptSync>>

NextSync ==
    \/ ListFails
    \/ ListAndPlan
    \/ FullReplaceDelete
    \/ FullReplaceCreate
    \/ IncrementalCreate
    \/ IncrementalUpdate
    \/ IncrementalDelete
    \/ Cleanup

(***************************************************************************)
(* Enrichment: the caches, the summary and the sub-category.               *)
(***************************************************************************)
\* dict.get(k, "") of a dict of strings
DictGet(d, k) == IF k \in DOMAIN d THEN d[k] ELSE ""

\* d[k] = v
DictSet(d, k, v) == [x \in DOMAIN d \cup {k} |-> IF x = k THEN v ELSE d[x]]

get_cached_kurzbeschreibung(objektnummer) == DictGet(KURZBESCHREIBUNG_CACHE, objektnummer)

get_cached_unterkategorie(objektnummer) == DictGet(UNTERKATEGORIE_CACHE, objektnummer)

\* load_caches: the two caches after the call, and which way the call went
RECURSIVE load_loop(_, _, _, _)
load_loop(all_fields, i, kurz, unter) ==
    IF i > Len(all_fields) THEN [kurz |-> kurz, unter |-> unter]
    ELSE LET fields == all_fields[i]
             obj_nr == strip(GetStr(fields, "Objektnummer"))
             kurzbeschreibung == strip(GetStr(fields, "Kurzbeschreibung"))
             unterkategorie == strip(GetStr(fields, "Unterkategorie"))
         IN  IF obj_nr = "" THEN load_loop(all_fields, i + 1, kurz, unter)
             ELSE load_loop(all_fields, i + 1,
                     IF kurzbeschreibung # "" THEN DictSet(kurz, obj_nr, kurzbeschreibung)
                     ELSE kurz,
                     IF unterkategorie # "" THEN DictSet(unter, obj_nr, unterkategorie)
                     ELSE unter)

\* a variant that loads the caches in full-replace mode too
load_caches_any_mode(configured, full_replace, list_ok, all_fields) ==
    IF ~configured
    THEN [kurz |-> KURZBESCHREIBUNG_CACHE, unter |-> UNTERKATEGORIE_CACHE,
          status |-> "unconfigured"]
    ELSE IF ~list_ok
    THEN [kurz |-> KURZBESCHREIBUNG_CACHE, unter |-> UNTERKATEGORIE_CACHE,
          status |-> IF full_replace THEN "skipped" ELSE "failed"]
    ELSE LET c == load_loop(all_fields, 1, KURZBESCHREIBUNG_CACHE, UNTERKATEGORIE_CACHE)
         IN  [kurz |-> c.kurz, unter |-> c.unter,
              status |-> IF full_replace THEN "skipped" ELSE "loaded"]

load_caches(configured, full_replace, list_ok, all_fields) ==
    IF ~configured
    THEN [kurz |-> KURZBESCHREIBUNG_CACHE, unter |-> UNTERKATEGORIE_CACHE,
          status |-> "unconfigured"]
    ELSE IF full_replace
    THEN [kurz |-> KURZBESCHREIBUNG_CACHE, unter |-> UNTERKATEGORIE_CACHE,
          status |-> "skipped"]
    ELSE IF ~list_ok
    THEN [kurz |-> KURZBESCHREIBUNG_CACHE, unter |-> UNTERKATEGORIE_CACHE,
          status |-> "failed"]
    ELSE LET c == load_loop(all_fields, 1, KURZBESCHREIBUNG_CACHE, UNTERKATEGORIE_CACHE)
         IN  [kurz |-> c.kurz, unter |-> c.unter, status |-> "loaded"]

KURZBESCHREIBUNG_FIELDS ==
    <<"Objekttyp", "Baujahr", "Wohnflaeche", "Grundstueck", "Zimmer", "Preis",
      "Standort", "Energieeffizienz", "Besonderheiten">>

\* the values that count as placeholders; the source's list also holds the
\* em dash (U+2014), a character no text of this model contains
Placeholders == {"-", "k. A.", "unbekannt", "nicht angegeben", ""}

\* line.split(":", 1) of a line that holds a ":"
SplitOnce(line, sep) ==
    LET i == CHOOSE j \in 1..Len(line) :
                /\ SubSeq(line, j, j) = sep
                /\ \A h \in 1..(j - 1) : SubSeq(line, h, h) # sep
    IN  <<SubSeq(line, 1, i - 1), SubSeq(line, i + 1, Len(line))>>

\* the first loop of normalize_kurzbeschreibung: the "key: value" lines
RECURSIVE parse_lines(_, _, _)
parse_lines(lines, i, parsed) ==
    IF i > Len(lines) THEN parsed
    ELSE LET line == strip(lines[i])
         IN  IF line = "" \/ ~Contains(":", line) THEN parse_lines(lines, i + 1, parsed)
             ELSE LET kv == SplitOnce(line, ":")
                      key == strip(kv[1])
                      value == strip(kv[2])
                  IN  IF value # "" /\ value \notin Placeholders
                      THEN parse_lines(lines, i + 1, DictSet(parsed, key, value))
                      ELSE parse_lines(lines, i + 1, parsed)

\* float(s) for the decimal texts "[-]digits[.digits]" (surrounding blanks
\* allowed); any other text makes float() raise
IsDigits(s) == Len(s) > 0 /\ \A i \in 1..Len(s) : IsDigit(SubSeq(s, i, i))

RECURSIVE DigitsToNat(_)
DigitsToNat(s) ==
    IF Len(s) = 0 THEN 0
    ELSE 10 * DigitsToNat(SubSeq(s, 1, Len(s) - 1)) + DigitVal(SubSeq(s, Len(s), Len(s)))

float(s) ==
    LET t == strip(s)
        neg == StartsWith(t, "-")
        u == IF neg THEN SubSeq(t, 2, Len(t)) ELSE t
        parts == split(u, ".")
        whole == parts[1]
        frac == IF Len(parts) = 2 THEN parts[2] ELSE ""
        ok == /\ Len(parts) <= 2
              /\ whole \o frac # ""
              /\ whole = "" \/ IsDigits(whole)
              /\ frac = "" \/ IsDigits(frac)
    IN  [ok |-> ok, neg |-> ok /\ neg,
         whole |-> IF ok THEN DigitsToNat(whole) ELSE 0,
         frac |-> IF ok THEN frac ELSE ""]

\* int(x) of a parsed float: towards zero
int(x) == IF x.neg THEN 0 - x.whole ELSE x.whole

\* one step of the second loop of normalize_kurzbeschreibung: a field the
\* model left out is filled from the scraped value
fill_field(parsed, field, scrape_value) ==
    IF field \in DOMAIN parsed /\ parsed[field] # "" THEN parsed
    ELSE IF scrape_value = "" \/ strip(scrape_value) = "" THEN parsed
    ELSE IF field = "Preis"
    THEN LET preis_num == float(strip(replace(replace(replace(scrape_value,
                                    ".", ""), ",", "."), "$", "")))
         IN  IF preis_num.ok
             THEN DictSet(parsed, field, IntToStr(int(preis_num)) \o " $")
             ELSE parsed
    ELSE IF field \in {"Wohnflaeche", "Grundstueck"}
    THEN LET val == strip(replace(replace(scrape_value, "ca.", ""), "m^2", ""))
         IN  IF val # "" THEN DictSet(parsed, field, val \o " m^2") ELSE parsed
    ELSE DictSet(parsed, field, scrape_value)

scrape_mapping ==
    << <<"Zimmer", "zimmer">>, <<"Wohnflaeche", "wohnflaeche">>,
       <<"Grundstueck", "grundstueck">>, <<"Baujahr", "baujahr">>,
       <<"Preis", "preis">>, <<"Standort", "standort">> >>

RECURSIVE fill_fields(_, _, _)
fill_fields(parsed, scraped_data, i) ==
    IF i > Len(scrape_mapping) THEN parsed
    ELSE fill_fields(fill_field(parsed, scrape_mapping[i][1],
                                GetStr(scraped_data, scrape_mapping[i][2])),
                     scraped_data, i + 1)

RECURSIVE output_lines(_, _)
output_lines(parsed, i) ==
    IF i > Len(KURZBESCHREIBUNG_FIELDS) THEN <<>>
    ELSE LET field == KURZBESCHREIBUNG_FIELDS[i]
             value == DictGet(parsed, field)
         IN  (IF value # "" /\ strip(value) # ""
              THEN <<field \o ": " \o value>> ELSE <<>>)
             \o output_lines(parsed, i + 1)

normalize_kurzbeschreibung(gpt_output, scraped_data) ==
    LET parsed == parse_lines(split(strip(gpt_output), "\n"), 1, <<>>)
    IN  join("\n", output_lines(fill_fields(parsed, scraped_data, 1), 1))

\* what the model service does with one request: it answers with a text, or
\* the request fails (timeout, HTTP error, malformed body)
Response(ok, content) == [ok |-> ok, content |-> content]

\* the result of an enrichment call: its return value and whether it sent a
\* request to the model service
Returned(out, called) == [out |-> out, called |-> called]

generate_kurzbeschreibung_key_first(beschreibung, titel, kategorie, preis, ort, zimmer, wohnflaeche, grundstueck, baujahr, objektnummer, response) ==
    LET scraped_data == [kategorie |-> kategorie, preis |-> preis, standort |-> ort,
                         zimmer |-> zimmer, wohnflaeche |-> wohnflaeche,
                         grundstueck |-> grundstueck, baujahr |-> baujahr]
        cached == get_cached_kurzbeschreibung(objektnummer)
    IN  IF OPENAI_API_KEY = ""
        THEN Returned(normalize_kurzbeschreibung("", scraped_data), FALSE)
        ELSE IF objektnummer # "" /\ cached # ""
        THEN Returned(cached, FALSE)
        ELSE IF response.ok
        THEN Returned(normalize_kurzbeschreibung(strip(response.content), scraped_data),
                      TRUE)
        ELSE Returned(normalize_kurzbeschreibung("", scraped_data), TRUE)

generate_kurzbeschreibung(beschreibung, titel, kategorie, preis, ort, zimmer, wohnflaeche, grundstueck, baujahr, objektnummer, response) ==
    LET scraped_data == [kategorie |-> kategorie, preis |-> preis, standort |-> ort,
                         zimmer |-> zimmer, wohnflaeche |-> wohnflaeche,
                         grundstueck |-> grundstueck, baujahr |-> baujahr]
        cached == get_cached_kurzbeschreibung(objektnummer)
    IN  IF objektnummer # "" /\ cached # ""
        THEN Returned(cached, FALSE)
        ELSE IF OPENAI_API_KEY = ""
        THEN Returned(normalize_kurzbeschreibung("", scraped_data), FALSE)
        ELSE IF response.ok
        THEN Returned(normalize_kurzbeschreibung(strip(response.content), scraped_data),
                      TRUE)
        ELSE Returned(normalize_kurzbeschreibung("", scraped_data), TRUE)

KEYS_WOHNUNG == {"wohnung", "etagenwohnung", "eigentumswohnung", "apartment", "etw",
                 "penthouse", "maisonette"}
KEYS_HAUS == {"haus", "einfamilienhaus", "zweifamilienhaus", "reihenhaus",
              "doppelhaushaelfte", "villa", "bungalow", "efh", "dhh", "mfh"}
KEYS_GEWERBE == {"gewerbe", "buero", "laden", "praxis", "lager", "halle", "gastronomie",
                 "gewerbeflaeche", "bueroflaeche"}
KEYS_GRUNDSTUECK == {"grundstueck", "baugrundstueck", "bauland", "bauplatz"}

\* sum(1 for k in keys if k in text)
Score(keys, text) == Cardinality({k \in keys : Contains(k, text)})

\* the labels in the order of the scores dict: max() returns the first of the best
ScoreOrder == <<"Grundstueck", "Gewerbe", "Wohnung", "Haus">>

heuristic_subcategory(titel, beschreibung) ==
    LET text == lower(titel \o " " \o beschreibung)
        scores == [l \in {"Grundstueck", "Gewerbe", "Wohnung", "Haus"} |->
                     CASE l = "Grundstueck" -> Score(KEYS_GRUNDSTUECK, text)
                       [] l = "Gewerbe" -> Score(KEYS_GEWERBE, text)
                       [] l = "Wohnung" -> Score(KEYS_WOHNUNG, text)
                       [] OTHER -> Score(KEYS_HAUS, text)]
        best == ScoreOrder[CHOOSE i \in 1..4 :
                    /\ \A j \in 1..4 : scores[ScoreOrder[j]] <= scores[ScoreOrder[i]]
                    /\ \A j \in 1..(i - 1) : scores[ScoreOrder[j]] < scores[ScoreOrder[i]]]
    IN  IF scores["Grundstueck"] >= 1 THEN "Grundstueck"
        ELSE IF scores["Gewerbe"] >= 2 THEN "Gewerbe"
        ELSE IF scores[best] >= 1 THEN best
        ELSE "Haus"

ValidLabels == {"Wohnung", "Haus", "Gewerbe", "Grundstueck"}

gpt_classify_unterkategorie_model_first(titel, beschreibung, objektnummer, kategorie, response) ==
    LET cached == get_cached_unterkategorie(objektnummer)
        output == replace(strip(response.content), ".", "")
    IN  IF OPENAI_API_KEY # ""
        THEN IF response.ok /\ output \in ValidLabels THEN Returned(output, TRUE)
             ELSE Returned(heuristic_subcategory(titel, beschreibung), TRUE)
        ELSE IF objektnummer # "" /\ cached # "" THEN Returned(cached, FALSE)
        ELSE Returned(heuristic_subcategory(titel, beschreibung), FALSE)

\* a variant that answers a failed or rejected request with the default label
gpt_classify_unterkategorie_default_on_failure(titel, beschreibung, objektnummer, kategorie, response) ==
    LET cached == get_cached_unterkategorie(objektnummer)
        output == replace(strip(response.content), ".", "")
    IN  IF objektnummer # "" /\ cached # "" THEN Returned(cached, FALSE)
        ELSE IF OPENAI_API_KEY = ""
        THEN Returned(heuristic_subcategory(titel, beschreibung), FALSE)
        ELSE IF response.ok /\ output \in ValidLabels THEN Returned(output, TRUE)
        ELSE Returned("Haus", TRUE)

gpt_classify_unterkategorie(titel, beschreibung, objektnummer, kategorie, response) ==
    LET cached == get_cached_unterkategorie(objektnummer)
        output == replace(strip(response.content), ".", "")
    IN  IF objektnummer # "" /\ cached # "" THEN Returned(cached, FALSE)
        ELSE IF OPENAI_API_KEY = ""
        THEN Returned(heuristic_subcategory(titel, beschreibung), FALSE)
        ELSE IF response.ok /\ output \in ValidLabels THEN Returned(output, TRUE)
        ELSE Returned(heuristic_subcategory(titel, beschreibung), TRUE)

\* the records of the store when load_caches lists it
CacheRecords ==
    { [Objektnummer |-> "A", Kurzbeschreibung |-> "Zimmer: 2"],
      [Objektnummer |-> "A", Kurzbeschreibung |-> "Zimmer: 3", Unterkategorie |-> "Villa "],
      [Objektnummer |-> " B ", Kurzbeschreibung |-> " Zimmer: 2\n", Unterkategorie |-> "Wohnung"],
      [Objektnummer |-> "B", Kurzbeschreibung |-> " ", Unterkategorie |-> ""],
      [Objektnummer |-> " ", Kurzbeschreibung |-> "Zimmer: 2", Unterkategorie |-> "Haus"],
      [Kurzbeschreibung |-> "Zimmer: 2"] }

\* the arguments of the calls: <<titel, beschreibung, objektnummer, kategorie>>
ClassifyArgs ==
    { <<"Buero und Lager", "", o, "Kaufen">> : o \in {"", "A", "B"} }
        \cup { <<"Praxis", "", "", "Mieten">> }

\* <<beschreibung, titel, kategorie, preis, ort, zimmer, wohnflaeche, grundstueck,
\*   baujahr, objektnummer>>; the ort of the last one is what plz_ort gives for a
\* document that goes on below the place name ("34117 Kassel\n\nzum Objekt")
SummaryArgs ==
    { <<"", "T", "Kaufen", "1.234,56 $", "", "3", "ca. 80 m^2", "", "", o>> :
        o \in {"", "A", "B"} }
        \cup { <<"", "T", "Mieten", "", "34117 Kassel\n\nzum", "", "", "", "1990", "">> }

ClassifyResponses ==
    { Response(FALSE, ""), Response(TRUE, "Wohnung"), Response(TRUE, " Gewerbe.\n"),
      Response(TRUE, "Villa") }

SummaryResponses ==
    { Response(FALSE, ""), Response(TRUE, "Zimmer: 4\nPreis: -\nEtage: 2"),
      Response(TRUE, "Standort : Kassel\n\nObjekttyp: Haus") }

NoCall == [fn |-> "", args |-> <<>>, response |-> Response(FALSE, ""), out |-> "",
           called |-> FALSE, before |-> 0]

Call(fn, args, response, r) ==
    [fn |-> fn, args |-> args, response |-> response, out |-> r.out,
     called |-> r.called, before |-> model_calls]

IdleEnrich ==
    /\ OPENAI_API_KEY = "" /\ KURZBESCHREIBUNG_CACHE = <<>> /\ UNTERKATEGORIE_CACHE = <<>>
    /\ cache_status = "" /\ model_calls = 0 /\ eprev = NoCall /\ ecur = NoCall

\* a run before load_caches, with at most n of the records in the store
EnrichStart(records, n) ==
    /\ hashseed = 0
    /\ FULL_REPLACE \in BOOLEAN
    /\ store \in {AsStore(recs) : recs \in BoundedSeq(records, n)}
    /\ nextId = Len(store) + 1
    /\ OPENAI_API_KEY \in {"", "sk"}
    /\ KURZBESCHREIBUNG_CACHE = <<>>
    /\ UNTERKATEGORIE_CACHE = <<>>
    /\ cache_status = ""
    /\ model_calls = 0
    /\ eprev = NoCall
    /\ ecur = NoCall

\* the store records with an object key and a sub-category
EnrichRecords ==
    {r \in CacheRecords : strip(GetStr(r, "Objektnummer")) # ""
                            /\ strip(GetStr(r, "Unterkategorie")) # ""}

InitEnrich == EnrichStart(EnrichRecords, MaxCacheRows)

InitCache == EnrichStart(CacheRecords, MaxRemote)

\* run(): load_caches(), before any listing is collected; the store credentials
\* are set or not, and the listing of the store succeeds or raises
LoadCaches ==
    /\ cache_status = ""
    /\ \E configured \in BOOLEAN, list_ok \in BOOLEAN :
          \E c \in {load_caches(configured, FULL_REPLACE, list_ok, fields_of(store))} :
              /\ KURZBESCHREIBUNG_CACHE' = c.kurz
              /\ UNTERKATEGORIE_CACHE' = c.unter
              /\ cache_status' = c.status
    /\ UNCHANGED <<OPENAI_API_KEY, model_calls, eprev, ecur, procVars, exceptEnrich>>

\* a variant of Classify that stores the label it returns under the object key
Classify_writes_cache ==
    /\ cache_status # ""
    /\ model_calls < MaxModelCalls
    /\ \E a \in ClassifyArgs, response \in ClassifyResponses :
          \E r \in {gpt_classify_unterkategorie(a[1], a[2], a[3], a[4], response)} :
              /\ eprev' = ecur
              /\ ecur' = Call("classify", a, response, r)
              /\ model_calls' = model_calls + (IF r.called THEN 1 ELSE 0)
              /\ UNTERKATEGORIE_CACHE' =
                    IF a[3] # "" THEN DictSet(UNTERKATEGORIE_CACHE, a[3], r.out)
                    ELSE UNTERKATEGORIE_CACHE
    /\ UNCHANGED <<OPENAI_API_KEY, KURZBESCHREIBUNG_CACHE, cache_status, procVars,
                   exceptEnrich>>

\* collect_all_properties: one call of gpt_classify_unterkategorie
Classify ==
    /\ cache_status # ""
    /\ model_calls < MaxModelCalls
    /\ \E a \in ClassifyArgs, response \in ClassifyResponses :
          \E r \in {gpt_classify_unterkategorie(a[1], a[2], a[3], a[4], response)} :
              /\ eprev' = ecur
              /\ ecur' = Call("classify", a, response, r)
              /\ model_calls' = model_calls + (IF r.called THEN 1 ELSE 0)
    /\ UNCHANGED <<OPENAI_API_KEY, KURZBESCHREIBUNG_CACHE, UNTERKATEGORIE_CACHE,
                   cache_status, procVars, exceptEnrich>>

\* make_record: one call of generate_kurzbeschreibung
Summarize ==
    /\ cache_status # ""
    /\ model_calls < MaxModelCalls
    /\ \E a \in SummaryArgs, response \in SummaryResponses :
          \E r \in {generate_kurzbeschreibung(a[1], a[2], a[3], a[4], a[5], a[6], a[7],
                                              a[8], a[9], a[10], response)} :
              /\ eprev' = ecur
              /\ ecur' = Call("summarize", a, response, r)
              /\ model_calls' = model_calls + (IF r.called THEN 1 ELSE 0)
    /\ UNCHANGED <<OPENAI_API_KEY, KURZBESCHREIBUNG_CACHE, UNTERKATEGORIE_CACHE,
                   cache_status, procVars, exceptEnrich>>

NextEnrich ==
    \/ LoadCaches
    \/ Classify
    \/ Summarize

NextCache ==
    \/ LoadCaches

(***************************************************************************)
(* Extraction: the price, the rent override and the category of a listing. *)
(* Where a local value is used many times it is bound by a quantifier      *)
(* (CHOOSE r \in {F(x) : x \in {e}} : TRUE is F(e)), so that it is computed  *)
(* once.                                                                   *)
(***************************************************************************)
CharAt(s, i) == IF i \in 1..Len(s) THEN SubSeq(s, i, i) ELSE ""

\* [\d.,]
NumChars == "0123456789.,"
IsNumChar(c) == \E i \in 1..Len(NumChars) : SubSeq(NumChars, i, i) = c

\* the last position of the longest run of [\d.,] that starts at i (i - 1: none)
RunEnd(s, i) ==
    CHOOSE j \in (i - 1)..Len(s) :
        /\ \A k \in i..j : IsNumChar(CharAt(s, k))
        /\ ~IsNumChar(CharAt(s, j + 1))

\* \s* from position i: the first position that holds no white space
SkipSpace(s, i) ==
    CHOOSE j \in i..(Len(s) + 1) :
        /\ \A k \in i..(j - 1) : IsSpace(CharAt(s, k))
        /\ ~IsSpace(CharAt(s, j))

NoMatch == [ok |-> FALSE, group |-> "", end |-> 0]

\* ([\d.,]+)\s*€ matched at position i: the figure and where the match ends.
\* The run is greedy; a shorter run is followed by a character of the run, so
\* backtracking finds no other match.
FigureAt(s, i) ==
    LET Figure(j, k) == IF j >= i /\ CharAt(s, k) = "$"
                        THEN [ok |-> TRUE, group |-> SubSeq(s, i, j), end |-> k]
                        ELSE NoMatch
        After(j) == CHOOSE m \in {Figure(j, k) : k \in {SkipSpace(s, j + 1)}} : TRUE
    IN  CHOOSE m \in {After(j) : j \in {RunEnd(s, i)}} : TRUE

\* the positions 1..Len(s), in order
Positions(s) == [i \in 1..Len(s) |-> i]

\* RE_PRICE.findall(s): the scan goes left to right and resumes after each
\* match, so the matches are those that start a run of [\d.,]
price_findall(s) ==
    LET Groups(starts) == [n \in 1..Len(starts) |-> FigureAt(s, starts[n]).group]
    IN  CHOOSE g \in {Groups(starts) : starts \in {SelectSeq(Positions(s),
                LAMBDA i : ~IsNumChar(CharAt(s, i - 1)) /\ FigureAt(s, i).ok)}} : TRUE

\* (?:Warmmiete|Kaltmiete|Miete), ignoring case
RentLabels == <<"warmmiete", "kaltmiete", "miete">>

LabelAt(s, i, l) == i + Len(l) - 1 <= Len(s) /\ lower(SubSeq(s, i, i + Len(l) - 1)) = l

\* \s*[:.]?\s*([\d.,]+)\s*€ matched from position p: the optional separator is
\* taken when there is one, and given back when the rest does not match then
RentTail(s, p) ==
    LET Figure(q, with_sep) == IF with_sep.ok THEN with_sep ELSE FigureAt(s, q)
        AfterSep(q, q2) == IF CharAt(s, q) \in {":", "."} THEN FigureAt(s, q2) ELSE NoMatch
        WithSep(q) == CHOOSE m \in {AfterSep(q, q2) : q2 \in {SkipSpace(s, q + 1)}} : TRUE
        FromSep(q) == CHOOSE m \in {Figure(q, w) : w \in {WithSep(q)}} : TRUE
    IN  CHOOSE m \in {FromSep(q) : q \in {SkipSpace(s, p)}} : TRUE

\* miete_pattern matched at position i
RentAt(s, i) ==
    IF \E n \in 1..Len(RentLabels) : LabelAt(s, i, RentLabels[n]) /\ RentTail(s, i + Len(RentLabels[n])).ok
    THEN LET n == CHOOSE n \in 1..Len(RentLabels) :
                    /\ LabelAt(s, i, RentLabels[n]) /\ RentTail(s, i + Len(RentLabels[n])).ok
                    /\ \A h \in 1..(n - 1) :
                         ~(LabelAt(s, i, RentLabels[h]) /\ RentTail(s, i + Len(RentLabels[h])).ok)
         IN  RentTail(s, i + Len(RentLabels[n]))
    ELSE NoMatch

\* miete_pattern.findall(s): the scan goes left to right and resumes after each
\* match, so a match that starts inside an earlier one (the "miete" of
\* "Warmmiete") is not found again
miete_findall(s) ==
    LET Groups(starts) == [n \in 1..Len(starts) |-> RentAt(s, starts[n]).group]
    IN  CHOOSE g \in {Groups(starts) : starts \in {SelectSeq(Positions(s),
                LAMBDA i : /\ RentAt(s, i).ok
                           /\ \A h \in 1..(i - 1) :
                                ~(RentAt(s, h).ok /\ RentAt(s, h).end >= i))}} : TRUE

\* float(p.replace(".", "").replace(",", "."))
figure_value(p) == float(replace(replace(p, ".", ""), ",", "."))

\* the digits of a fraction, padded with zeros to n places, as a number
RECURSIVE Pow10(_)
Pow10(k) == IF k = 0 THEN 1 ELSE 10 * Pow10(k - 1)

FracVal(frac, n) == DigitsToNat(frac) * Pow10(n - Len(frac))

\* x < y and x = y for two parsed floats that are not negative
FloatLess(x, y) ==
    LET n == IF Len(x.frac) > Len(y.frac) THEN Len(x.frac) ELSE Len(y.frac)
    IN  \/ x.whole < y.whole
        \/ x.whole = y.whole /\ FracVal(x.frac, n) < FracVal(y.frac, n)

FloatEq(x, y) == ~FloatLess(x, y) /\ ~FloatLess(y, x)

\* val > PriceFloor, the test both the price and the rent figure go through
PriceFloor == 100

AboveFloor(x) ==
    x.ok /\ ~x.neg /\ FloatLess([whole |-> PriceFloor, frac |-> ""], x)

\* the order of the code points of the characters of a price text (the euro
\* sign, written $, comes after the ASCII characters)
CodeOrder == " ,.0123456789$"
Code(c) == CHOOSE i \in 1..Len(CodeOrder) : SubSeq(CodeOrder, i, i) = c

\* a < b for two price texts, as Python compares strings
RECURSIVE StrLess(_, _)
StrLess(a, b) ==
    IF Len(b) = 0 THEN FALSE
    ELSE IF Len(a) = 0 THEN TRUE
    ELSE IF CharAt(a, 1) # CharAt(b, 1) THEN Code(CharAt(a, 1)) < Code(CharAt(b, 1))
    ELSE StrLess(SubSeq(a, 2, Len(a)), SubSeq(b, 2, Len(b)))

\* the (val, text) tuples of the figures above the floor
price_tuples(price_matches) ==
    LET Tuples(kept) ==
            [i \in 1..Len(kept) |-> [val |-> figure_value(kept[i]), text |-> kept[i] \o " $"]]
    IN  CHOOSE t \in {Tuples(kept) : kept \in {SelectSeq(price_matches,
                LAMBDA p : AboveFloor(figure_value(p)))}} : TRUE

TupleLess(a, b) ==
    \/ FloatLess(a.val, b.val)
    \/ FloatEq(a.val, b.val) /\ StrLess(a.text, b.text)

\* prices.sort(reverse=True); prices[0][1]: the text of the greatest tuple
extract_preis(text_content) ==
    LET Greatest(prices) ==
            IF Len(prices) = 0 THEN ""
            ELSE prices[CHOOSE i \in 1..Len(prices) :
                            \A j \in 1..Len(prices) : ~TupleLess(prices[i], prices[j])].text
    IN  CHOOSE t \in {Greatest(prices) :
                        prices \in {price_tuples(price_findall(text_content))}} : TRUE

\* the loop over miete_matches: the first figure above the floor, "" if none
RECURSIVE first_rent_above(_, _)
first_rent_above(miete_matches, i) ==
    IF i > Len(miete_matches) THEN ""
    ELSE IF AboveFloor(figure_value(miete_matches[i])) THEN miete_matches[i]
    ELSE first_rent_above(miete_matches, i + 1)

IsUpper(c) == \E i \in 1..Len(UpperChars) : SubSeq(UpperChars, i, i) = c

\* [a-z\-\s/] of RE_PLZ_ORT
IsOrtChar(c) ==
    \/ \E i \in 1..Len(LowerChars) : SubSeq(LowerChars, i, i) = c
    \/ c \in {"-", "/"}
    \/ IsSpace(c)

\* \w
IsWordChar(c) ==
    \/ \E i \in 1..Len(LowerChars) : SubSeq(LowerChars, i, i) = c
    \/ IsUpper(c) \/ IsDigit(c) \/ c = "_"

\* RE_PLZ_ORT matched at position i: five digits after a word boundary, white
\* space, a capital and the longest run of [a-z\-\s/] (one character at least);
\* group is "<digits> <place>", the place trimmed at its two ends only
PlzOrtAt(s, i) ==
    LET Place(j, k) ==
            IF j > i + 5 /\ IsUpper(CharAt(s, j)) /\ k > j
            THEN [ok |-> TRUE, end |-> k,
                  group |-> SubSeq(s, i, i + 4) \o " " \o strip(SubSeq(s, j, k))]
            ELSE NoMatch
        RunOf(j) ==
            CHOOSE k \in j..Len(s) :
                /\ \A m \in (j + 1)..k : IsOrtChar(CharAt(s, m))
                /\ ~IsOrtChar(CharAt(s, k + 1))
        After(j) == IF j > Len(s) THEN NoMatch
                    ELSE CHOOSE m \in {Place(j, k) : k \in {RunOf(j)}} : TRUE
    IN  IF /\ \A m \in i..(i + 4) : IsDigit(CharAt(s, m))
           /\ i = 1 \/ ~IsWordChar(CharAt(s, i - 1))
        THEN CHOOSE m \in {After(j) : j \in {SkipSpace(s, i + 5)}} : TRUE
        ELSE NoMatch

\* data["ort"]: RE_PLZ_ORT.search(text_content_full), "" without a match (the
\* documents of the model have no meta tags)
plz_ort(text_content_full) ==
    LET First(hits) == IF Len(hits) = 0 THEN "" ELSE PlzOrtAt(text_content_full, hits[1]).group
    IN  CHOOSE o \in {First(hits) :
            hits \in {SelectSeq(Positions(text_content_full),
                                LAMBDA i : PlzOrtAt(text_content_full, i).ok)}} : TRUE

\* get_propstack_property_data_from_iframe: titel, preis, ort and kategorie of
\* data
get_propstack_property_data_from_iframe(listing) ==
    LET Data(preis, miete_str, ort) ==
            [titel |-> IF Len(listing.titel) > 5 THEN listing.titel ELSE "",
             beschreibung |-> "",
             ort |-> ort,
             preis |-> IF miete_str # "" THEN miete_str \o " $" ELSE preis,
             kategorie |-> IF miete_str # "" THEN "Mieten" ELSE "Kaufen",
             unterkategorie |-> "Haus"]
        Scan(text_content_full, text_content) ==
            CHOOSE d \in {Data(preis, miete_str, ort) :
                    preis \in {extract_preis(text_content)},
                    miete_str \in {first_rent_above(miete_findall(text_content_full), 1)},
                    ort \in {plz_ort(text_content_full)}} : TRUE
        Lowered(text_content_full) ==
            CHOOSE d \in {Scan(text_content_full, text_content) :
                    text_content \in {lower(text_content_full)}} : TRUE
    IN  CHOOSE d \in {Lowered(text_content_full) :
            text_content_full \in {listing.titel \o "\n" \o listing.body}} : TRUE

\* section_mapping, in the order of the dict: key, kat ("" for None)
section_mapping ==
    << <<"einfamilienhaus", "Kaufen">>, <<"einfamilienhaeuser", "Kaufen">>,
       <<"doppelhaushaelfte", "Kaufen">>, <<"doppelhaushaelften", "Kaufen">>,
       <<"zweifamilienhaus", "Kaufen">>, <<"zweifamilienhaeuser", "Kaufen">>,
       <<"mehrfamilienhaus", "Kaufen">>, <<"mehrfamilienhaeuser", "Kaufen">>,
       <<"eigentumswohnung", "Kaufen">>, <<"eigentumswohnungen", "Kaufen">>,
       <<"gewerbeimmobilie", "">>, <<"gewerbeimmobilien", "">>,
       <<"mietobjekt", "Mieten">>, <<"mietobjekte", "Mieten">>,
       <<"grundstueck", "Kaufen">>, <<"grundstuecke", "Kaufen">>,
       <<"neubau", "Kaufen">> >>

\* the kategorie collect_detail_page_links_with_categories gives a link under
\* the header prev_header_text
overview_kategorie_of(header) ==
    LET prev_header_text == lower(strip(header))
        hits == {n \in 1..Len(section_mapping) : Contains(section_mapping[n][1], prev_header_text)}
        first == CHOOSE n \in hits : \A h \in hits : n <= h
    IN  IF prev_header_text # "" /\ hits # {} /\ section_mapping[first][2] # ""
        THEN section_mapping[first][2]
        ELSE "Kaufen"

\* preis_val < 30000 of the Gewerbe special case
GewerbeRentCeiling == 30000

\* assemble with the overview hint replacing the category in every case
assemble_hint_wins(prop_data, overview_kategorie, objektnummer, response) ==
    LET Prop(r) ==
            [titel |-> prop_data.titel, beschreibung |-> prop_data.beschreibung,
             preis |-> prop_data.preis, ort |-> prop_data.ort,
             objektnummer |-> objektnummer,
             unterkategorie |-> r.out, called |-> r.called,
             kategorie |-> overview_kategorie]
    IN  CHOOSE p \in {Prop(r) : r \in {gpt_classify_unterkategorie(prop_data.titel,
                        prop_data.beschreibung, objektnummer, overview_kategorie,
                        response)}} : TRUE

\* collect_all_properties, from "Kategorie setzen" on: the prop_data of one
\* listing, classified with the answer the model service gives (if asked)
assemble(prop_data, overview_kategorie, objektnummer, response) ==
    LET kategorie == IF overview_kategorie # "" /\ prop_data.kategorie # "Mieten"
                     THEN overview_kategorie ELSE prop_data.kategorie
        Special(preis_val) ==
            IF preis_val.ok /\ FloatLess(preis_val, [whole |-> GewerbeRentCeiling, frac |-> ""])
            THEN "Mieten" ELSE "Kaufen"
        Prop(r) ==
            [titel |-> prop_data.titel, beschreibung |-> prop_data.beschreibung,
             preis |-> prop_data.preis, ort |-> prop_data.ort,
             objektnummer |-> objektnummer,
             unterkategorie |-> r.out,
             called |-> r.called,
             kategorie |-> IF r.out = "Gewerbe" /\ overview_kategorie = ""
                           THEN Special(float(strip(replace(replace(replace(
                                        prop_data.preis, "$", ""), ".", ""), ",", "."))))
                           ELSE kategorie]
    IN  CHOOSE p \in {Prop(r) : r \in {gpt_classify_unterkategorie(prop_data.titel,
                        prop_data.beschreibung, objektnummer, kategorie, response)}} : TRUE

\* make_record: preis_value, the number stored as Preis (not ok: no Preis)
preis_value_of(prop) ==
    IF prop.preis = "" THEN [ok |-> FALSE, neg |-> FALSE, whole |-> 0, frac |-> ""]
    ELSE float(strip(replace(replace(replace(prop.preis, "$", ""), ".", ""), ",", ".")))

\* make_record: the record of one assembled listing. Preis is the parsed number
\* (whole part and decimals), present only when the price text parses.
make_record(prop, response) ==
    LET Record(preis_value, k) ==
            [record |->
                [f \in {"Titel", "Kategorie", "Unterkategorie", "Webseite", "Objektnummer",
                        "Beschreibung", "Kurzbeschreibung", "Bild", "Standort"}
                        \cup (IF preis_value.ok THEN {"Preis"} ELSE {}) |->
                    CASE f = "Titel" -> prop.titel
                      [] f = "Kategorie" -> prop.kategorie
                      [] f = "Unterkategorie" -> prop.unterkategorie
                      [] f = "Webseite" -> "u"
                      [] f = "Objektnummer" -> prop.objektnummer
                      [] f = "Beschreibung" -> prop.beschreibung
                      [] f = "Kurzbeschreibung" -> k.out
                      [] f = "Standort" -> prop.ort
                      [] f = "Preis" -> [whole |-> preis_value.whole,
                                         frac |-> preis_value.frac]
                      [] OTHER -> ""],
             called |-> k.called]
    IN  CHOOSE r \in {Record(preis_value, k) :
            preis_value \in {preis_value_of(prop)},
            k \in {generate_kurzbeschreibung(prop.beschreibung, prop.titel,
                        prop.kategorie, prop.preis, prop.ort, "", "", "", "",
                        prop.objektnummer, response)}} : TRUE

\* the listings of the model: a title and the rest of the viewer document (no
\* paragraph of more than 50 characters, so beschreibung stays empty)
ListingTitles == {"Buero und Lager", "Villa"}

ListingBodies ==
    { "", "Kaufpreis 250.000 $", "Miete: 650 $", "Kaltmiete 90 $",
      "Warmmiete: 1.200,50 $ Kaution 3.000 $", "Miete 80 $ Miete . 500 $",
      "MIETE.900$", "Miete 1,2,3 $ Preis 150 $", "Mieter zahlt 700 $",
      "Miete 100,0 $ Kaufpreis 99.000 $", "Kaufpreis 250.000 $ in 34117 Kassel",
      "34117 Kassel\n\nzum Objekt 90 $" }

OverviewHeaders == {"", "Mietobjekte", "Gewerbeimmobilien", " Eigentumswohnungen "}

NoProp == [kategorie |-> ""]

IdleExtract ==
    /\ xlisting = [titel |-> "", body |-> ""] /\ xheader = ""
    /\ xdata = NoProp /\ xprop = NoProp /\ xrecord = <<>> /\ xpc = ""

InitExtract ==
    /\ hashseed = 0
    /\ FULL_REPLACE \in BOOLEAN
    /\ OPENAI_API_KEY \in {"", "sk"}
    /\ KURZBESCHREIBUNG_CACHE = <<>>
    /\ UNTERKATEGORIE_CACHE \in (IF FULL_REPLACE THEN {<<>>}
                                 ELSE {<<>>, [o \in {"A"} |-> "Gewerbe"]})
    /\ cache_status = IF FULL_REPLACE THEN "skipped" ELSE "loaded"
    /\ model_calls = 0 /\ eprev = NoCall /\ ecur = NoCall
    /\ xlisting \in [titel : ListingTitles, body : ListingBodies]
    /\ xheader \in OverviewHeaders
    /\ xdata = NoProp /\ xprop = NoProp /\ xrecord = <<>>
    /\ xpc = "extract"

\* the viewer document cannot be fetched or parsed: no data, the listing is skipped
ExtractFails ==
    /\ xpc = "extract"
    /\ xpc' = "skipped"
    /\ UNCHANGED <<xlisting, xheader, xdata, xprop, xrecord, enrichVars, procVars,
                   exceptExtract>>

\* prop_data = get_propstack_property_data_from_iframe(iframe_url)
Extract ==
    /\ xpc = "extract"
    /\ xdata' = get_propstack_property_data_from_iframe(xlisting)
    /\ xpc' = "assemble"
    /\ UNCHANGED <<xlisting, xheader, xprop, xrecord, enrichVars, procVars, exceptExtract>>

\* collect_all_properties: category, sub-category and the Gewerbe special case
Assemble ==
    /\ xpc = "assemble"
    /\ \E response \in ClassifyResponses :
          \E prop \in {assemble(xdata, overview_kategorie_of(xheader), "A", response)} :
              /\ xprop' = prop
              /\ eprev' = ecur
              /\ ecur' = Call("classify",
                              <<prop.titel, prop.beschreibung, prop.objektnummer,
                                prop.kategorie>>,
                              response, Returned(prop.unterkategorie, prop.called))
              /\ model_calls' = model_calls + (IF prop.called THEN 1 ELSE 0)
    /\ xpc' = "record"
    /\ UNCHANGED <<xlisting, xheader, xdata, xrecord, OPENAI_API_KEY,
                   KURZBESCHREIBUNG_CACHE, UNTERKATEGORIE_CACHE, cache_status,
                   procVars, exceptExtract>>

\* records = [make_record(p) for p in all_properties]
MakeRecord ==
    /\ xpc = "record"
    /\ \E response \in SummaryResponses :
          \E r \in {make_record(xprop, response)} :
              /\ xrecord' = r.record
              /\ eprev' = ecur
              /\ ecur' = Call("summarize",
                              <<xprop.beschreibung, xprop.titel, xprop.kategorie,
                                xprop.preis, xprop.ort, "", "", "", "",
                                xprop.objektnummer>>,
                              response, Returned(r.record.Kurzbeschreibung, r.called))
              /\ model_calls' = model_calls + (IF r.called THEN 1 ELSE 0)
    /\ xpc' = "done"
    /\ UNCHANGED <<xlisting, xheader, xdata, xprop, OPENAI_API_KEY,
                   KURZBESCHREIBUNG_CACHE, UNTERKATEGORIE_CACHE, cache_status,
                   procVars, exceptExtract>>

NextExtract ==
    \/ ExtractFails
    \/ Extract
    \/ Assemble
    \/ MakeRecord

(***************************************************************************)
(* run(): the probe, the collection, the validation, the export and the    *)
(* gate in front of the sync.                                              *)
(***************************************************************************)
\* what requests.get gives: a response with a status code, or an exception
HttpStatus(code) == [status |-> code, error |-> ""]

RequestError(name) == [status |-> 0, error |-> name]

ProbeAnswers ==
    {HttpStatus(200), HttpStatus(403), HttpStatus(404), HttpStatus(500),
     RequestError("ConnectionError"), RequestError("Timeout")}

test_website_reachability(answer) ==
    IF answer.error # "" THEN FALSE
    ELSE IF answer.status = 200 THEN TRUE
    ELSE IF answer.status = 403 THEN FALSE
    ELSE answer.status < 500

\* the file csv.DictWriter leaves: the header, then one line per row
NoFile == [written |-> FALSE, rows |-> <<>>]

CsvFile(rows) == [written |-> TRUE, rows |-> rows]

\* what the viewer address of a listing gives where the token is looked for:
\* no "eyJ..." part, one that base64, UTF-8 or JSON decoding rejects, or one
\* that decodes to a JSON object
NoToken == [kind |-> "absent", data |-> <<>>]

BadToken == [kind |-> "malformed", data |-> <<>>]

JsonToken(token_data) == [kind |-> "json", data |-> token_data]

ViewerTokens == {NoToken, BadToken, JsonToken([property_token |-> "A"]), JsonToken(<<>>)}

\* the addresses of detail pages, as urljoin and the cut at "#" and "?" leave them
DetailUrls == {"x.de/h1", "x.de/h2/"}

\* the listings the overview page may link: distinct addresses (a link whose
\* address is already in detail_data is left out), each with the token of
\* its viewer, the title of its viewer document ("" = none found) and
\* whether its two documents can be loaded and read in this run
Listings == [url : DetailUrls, token : ViewerTokens, titel : {"T", ""}, ok : BOOLEAN]

DistinctUrls(found) ==
    \A i, j \in 1..Len(found) : i # j => found[i].url # found[j].url

\* prop_data["objektnummer"]: property_token of the decoded token, or the
\* last segment of the detail page's address
objektnummer_of(token, detail_url) ==
    IF token.kind = "json"
    THEN DictGet(token.data, "property_token")
    ELSE split(detail_url, "/")[Len(split(detail_url, "/"))]

\* make_record of the property of one listing
ListingRow(l) ==
    [Row(objektnummer_of(l.token, l.url), l.url, "x") EXCEPT !.Titel = l.titel]

MainStoreRecords == {Row("A", "u", "x"), Row("B", "w", "x"), Row("", "", "x")}

\* collect_all_properties, then make_record of each property: no listing
\* when the overview page could not be loaded, and a listing whose
\* documents could not be loaded or read is left out
collect_all_properties(found) ==
    LET got == SelectSeq(found, LAMBDA l : l.ok)
    IN  [i \in 1..Len(got) |-> ListingRow(got[i])]

IdleMain ==
    /\ reachable = "" /\ AIRTABLE_TOKEN = ""
    /\ detail_data = <<>> /\ scraped = <<>> /\ csv_file = NoFile

InitMain ==
    /\ hashseed = 0
    /\ FULL_REPLACE \in BOOLEAN
    /\ AIRTABLE_TOKEN \in {"", "pat"}
    /\ store \in {AsStore(recs) : recs \in BoundedSeq(MainStoreRecords, MaxMainStore)}
    /\ nextId = Len(store) + 1
    /\ all_rows = <<>>
    /\ listed = <<>> /\ desired = <<>>
    /\ to_create = <<>> /\ to_update = <<>> /\ to_delete_ids = <<>>
    /\ log = <<>>
    /\ pc = "probe"
    /\ reachable = "" /\ detail_data = <<>> /\ scraped = <<>> /\ csv_file = NoFile

\* if not test_website_reachability(): write the header-only file, return
Probe ==
    /\ pc = "probe"
    /\ \E answer \in ProbeAnswers :
          IF test_website_reachability(answer)
          THEN /\ reachable' = "yes"
               /\ pc' = "collect"
               /\ UNCHANGED csv_file
          ELSE /\ reachable' = "no"
               /\ csv_file' = CsvFile(<<>>)
               /\ pc' = "done"
    /\ UNCHANGED <<AIRTABLE_TOKEN, detail_data, scraped, FULL_REPLACE, all_rows, store, nextId, listed,
                   desired, to_create, to_update, to_delete_ids, log,
                   procVars, exceptMain>>

\* load_caches (it only reads the store), collect_all_properties;
\* if not all_properties: return
Collect ==
    /\ pc = "collect"
    /\ \E overview_ok \in BOOLEAN, found \in BoundedSeq(Listings, MaxListings) :
          /\ DistinctUrls(found)
          /\ detail_data' = IF overview_ok THEN found ELSE <<>>
    /\ scraped' = collect_all_properties(detail_data')
    /\ pc' = IF scraped' = <<>> THEN "done" ELSE "validate"
    /\ UNCHANGED <<reachable, AIRTABLE_TOKEN, csv_file, FULL_REPLACE, all_rows, store,
                   nextId, listed, desired, to_create, to_update, to_delete_ids, log,
                   procVars, exceptMain>>

\* all_rows = filter_valid_records(all_rows); if not all_rows: return
Validate ==
    /\ pc = "validate"
    /\ all_rows' = filter_valid_records(scraped)
    /\ pc' = IF all_rows' = <<>> THEN "done" ELSE "export"
    /\ UNCHANGED <<reachable, AIRTABLE_TOKEN, detail_data, scraped, csv_file, FULL_REPLACE, store,
                   nextId, listed, desired, to_create, to_update, to_delete_ids, log,
                   procVars, exceptMain>>

\* Export without the test of the credentials: the sync follows every export
Export_without_gate ==
    /\ pc = "export"
    /\ csv_file' = CsvFile(all_rows)
    /\ pc' = "sync"
    /\ UNCHANGED <<reachable, AIRTABLE_TOKEN, detail_data, scraped, FULL_REPLACE, all_rows, store,
                   nextId, listed, desired, to_create, to_update, to_delete_ids, log,
                   procVars, exceptMain>>

\* the file is written, then
\* if AIRTABLE_TOKEN and AIRTABLE_BASE and airtable_table_segment(): the sync
Export ==
    /\ pc = "export"
    /\ csv_file' = CsvFile(all_rows)
    /\ pc' = IF AIRTABLE_TOKEN # "" THEN "sync" ELSE "done"
    /\ UNCHANGED <<reachable, AIRTABLE_TOKEN, detail_data, scraped, FULL_REPLACE, all_rows, store,
                   nextId, listed, desired, to_create, to_update, to_delete_ids, log,
                   procVars, exceptMain>>

NextMain ==
    \/ Probe
    \/ Collect
    \/ Validate
    \/ Export
    \/ ListFails
    \/ ListAndPlan
    \/ FullReplaceDelete
    \/ FullReplaceCreate
    \/ IncrementalCreate
    \/ IncrementalUpdate
    \/ IncrementalDelete
    \/ Cleanup

(***************************************************************************)
(* soup_get and its callers: the overview page, then for each listing its  *)
(* detail page and its viewer document.                                    *)
(***************************************************************************)
\* what one request of soup_get may meet; the last is an exception of
\* requests that soup_get has no handler for
FetchAnswers ==
    {HttpStatus(200), HttpStatus(403), HttpStatus(429), HttpStatus(404), HttpStatus(500),
     RequestError("ConnectionError"), RequestError("Timeout"),
     RequestError("TooManyRedirects")}

\* the exception a failed request raises inside soup_get
ErrorName(answer) == IF answer.error # "" THEN answer.error ELSE "HTTPError"

\* soup_get_attempt with every failed request retried, an HTTP error of any
\* status and an exception of any kind as well
soup_get_attempt_retries_every_error(answer, n) ==
    IF answer.error = "" /\ answer.status < 400
    THEN [outcome |-> "return", wait |-> 0]
    ELSE IF answer.error = "" /\ answer.status \in {403, 429}
    THEN [outcome |-> "retry", wait |-> (2 ^ n) * 5]
    ELSE [outcome |-> "retry", wait |-> (2 ^ n) * 2]

\* one pass of the loop of soup_get, attempt = n
soup_get_attempt(answer, n) ==
    IF answer.error = "" /\ answer.status < 400
    THEN [outcome |-> "return", wait |-> 0]
    ELSE IF answer.error \in {"ConnectionError", "Timeout"}
    THEN [outcome |-> "retry", wait |-> (2 ^ n) * 2]
    ELSE IF answer.error = "" /\ answer.status \in {403, 429}
    THEN [outcome |-> "retry", wait |-> (2 ^ n) * 5]
    ELSE [outcome |-> "raise", wait |-> 0]

\* no call of soup_get is open
IdleCall ==
    /\ max_retries = 0 /\ attempt = 0 /\ requests_made = 0
    /\ waits = <<>> /\ answers = <<>> /\ last_error = "" /\ fetch_pc = ""

IdleFetch == fetch_stage = "" /\ listing_no = 0 /\ loaded = {} /\ skipped = {} /\ IdleCall

\* soup_get(url, max_retries=cap) is entered
CallSoupGet(cap) ==
    /\ max_retries' = cap /\ attempt' = 0 /\ requests_made' = 0
    /\ waits' = <<>> /\ answers' = <<>> /\ last_error' = "" /\ fetch_pc' = "call"

\* collect_detail_page_links_with_categories calls soup_get(LIST_URL, max_retries=3)
InitFetch ==
    /\ hashseed = 0
    /\ fetch_stage = "overview" /\ listing_no = 0 /\ loaded = {} /\ skipped = {}
    /\ max_retries = OverviewRetries /\ attempt = 0 /\ requests_made = 0
    /\ waits = <<>> /\ answers = <<>> /\ last_error = "" /\ fetch_pc = "call"

\* for attempt in range(max_retries): one request and what follows it
SoupGetAttempt ==
    /\ fetch_pc = "call"
    /\ attempt < max_retries
    /\ \E answer \in FetchAnswers :
          /\ requests_made' = requests_made + 1
          /\ answers' = Append(answers, answer)
          /\ \E step \in {soup_get_attempt(answer, attempt)} :
                CASE step.outcome = "return" ->
                        /\ fetch_pc' = "returned"
                        /\ UNCHANGED <<attempt, waits, last_error>>
                  [] step.outcome = "retry" ->
                        /\ last_error' = ErrorName(answer)
                        /\ waits' = Append(waits, step.wait)
                        /\ attempt' = attempt + 1
                        /\ UNCHANGED fetch_pc
                  [] OTHER ->
                        /\ fetch_pc' = ErrorName(answer)
                        /\ UNCHANGED <<attempt, waits, last_error>>
    /\ UNCHANGED <<fetch_stage, listing_no, loaded, skipped, max_retries,
                   procVars, exceptFetch>>

\* the loop is over: raise last_error or Exception(...)
SoupGetExhausted ==
    /\ fetch_pc = "call"
    /\ attempt = max_retries
    /\ fetch_pc' = IF last_error # "" THEN last_error ELSE "Exception"
    /\ UNCHANGED <<fetch_stage, listing_no, loaded, skipped, max_retries, attempt,
                   requests_made, waits, answers, last_error, procVars, exceptFetch>>

\* the for loop of collect_all_properties moves to the next detail page
NextListing ==
    IF listing_no < MaxListings
    THEN /\ listing_no' = listing_no + 1
         /\ fetch_stage' = "detail"
         /\ CallSoupGet(DetailRetries)
    ELSE /\ fetch_stage' = "end"
         /\ UNCHANGED <<listing_no, max_retries, attempt, requests_made, waits, answers,
                        last_error, fetch_pc>>

\* collect_detail_page_links_with_categories: the links of the page, or []
\* when soup_get raised
OverviewDone ==
    /\ fetch_stage = "overview"
    /\ fetch_pc \notin {"", "call"}
    /\ IF fetch_pc = "returned"
       THEN NextListing
       ELSE /\ fetch_stage' = "end"
            /\ UNCHANGED <<listing_no, max_retries, attempt, requests_made, waits, answers,
                           last_error, fetch_pc>>
    /\ UNCHANGED <<loaded, skipped, procVars, exceptFetch>>

\* extract_iframe_from_detail_page: the viewer's address, or None when the
\* page has none or soup_get raised; collect_all_properties skips on None
DetailDone ==
    /\ fetch_stage = "detail"
    /\ fetch_pc \notin {"", "call"}
    /\ \E has_iframe \in BOOLEAN :
          IF fetch_pc = "returned" /\ has_iframe
          THEN /\ fetch_stage' = "iframe"
               /\ CallSoupGet(DetailRetries)
               /\ UNCHANGED <<listing_no, skipped>>
          ELSE /\ skipped' = skipped \cup {listing_no}
               /\ NextListing
    /\ UNCHANGED <<loaded, procVars, exceptFetch>>

\* get_propstack_property_data_from_iframe: the data, or None when soup_get
\* raised; collect_all_properties appends the data, or goes on without
IframeDone ==
    /\ fetch_stage = "iframe"
    /\ fetch_pc \notin {"", "call"}
    /\ IF fetch_pc = "returned"
       THEN loaded' = loaded \cup {listing_no} /\ UNCHANGED skipped
       ELSE skipped' = skipped \cup {listing_no} /\ UNCHANGED loaded
    /\ NextListing
    /\ UNCHANGED <<procVars, exceptFetch>>

NextFetch ==
    \/ SoupGetAttempt
    \/ SoupGetExhausted
    \/ OverviewDone
    \/ DetailDone
    \/ IframeDone

vars == <<procVars, keyVars, validVars, syncVars, enrichVars, extractVars,
          mainVars, fetchVars>>

StartKey == IdleMain /\ IdleFetch /\ InitKey /\ IdleValid /\ IdleSync /\ IdleEnrich /\ IdleExtract

SpecKey == StartKey /\ [][NextKey]_vars

StartValid == IdleMain /\ IdleFetch /\ InitValid /\ IdleKey /\ IdleSync /\ IdleEnrich /\ IdleExtract

SpecValid == StartValid /\ [][NextValid]_vars

StartSync == IdleMain /\ IdleFetch /\ InitSync /\ IdleKey /\ IdleValid /\ IdleEnrich /\ IdleExtract

SpecSync == StartSync /\ [][NextSync]_vars

StartEnrich == IdleMain /\ IdleFetch /\ InitEnrich /\ IdleKey /\ IdleValid /\ IdlePlan /\ IdleExtract

SpecEnrich == StartEnrich /\ [][NextEnrich]_vars

StartCache == IdleMain /\ IdleFetch /\ InitCache /\ IdleKey /\ IdleValid /\ IdlePlan /\ IdleExtract

SpecCache == StartCache /\ [][NextCache]_vars

StartExtract == IdleMain /\ IdleFetch /\ InitExtract /\ IdleKey /\ IdleValid /\ IdleRun

SpecExtract == StartExtract /\ [][NextExtract]_vars

StartMain == InitMain /\ IdleKey /\ IdleValid /\ IdleEnrich /\ IdleExtract /\ IdleFetch

SpecMain == StartMain /\ [][NextMain]_vars

StartFetch == InitFetch /\ IdleKey /\ IdleValid /\ IdleSync /\ IdleEnrich /\ IdleExtract /\ IdleMain

SpecFetch == StartFetch /\ [][NextFetch]_vars

(***************************************************************************)
(* Claims                                                                  *)
(***************************************************************************)

\* the sync has listed the store and scheduled its mutations
Planned == pc \notin {"", "sync", "list_failed"}

RowKeys == {unique_key(all_rows[i]) : i \in 1..Len(all_rows)}

ListedKeys == {unique_key(listed[i].fields) : i \in 1..Len(listed)}

\* the requests of the sync proper (not the sweep's) in the log
SyncLog == SelectSeq(log, LAMBDA q : q.phase = "sync")

\* C3: in full-replace mode the ids scheduled for deletion are exactly the ids
\* of all listed records, whatever they hold; the records scheduled for creation
\* are exactly the validated rows; no update is scheduled or issued; and no
\* delete request of the sync follows a create request: when the create is
\* issued every listed record is gone.
C3_FullReplace ==
    (FULL_REPLACE /\ Planned) =>
        /\ to_delete_ids = [i \in 1..Len(listed) |-> listed[i].id]
        /\ to_create = all_rows
        /\ to_update = <<>>
        /\ \A i \in 1..Len(log) : log[i].op # "update"
        /\ \A i, j \in 1..Len(SyncLog) :
              (SyncLog[i].op = "create" /\ SyncLog[j].op = "delete") => j < i
        /\ \A i \in 1..Len(SyncLog) :
              /\ SyncLog[i].op = "delete" => SyncLog[i].items = to_delete_ids
              /\ SyncLog[i].op = "create" =>
                    /\ SyncLog[i].items = all_rows
                    /\ Len(listed) > 0 => \E j \in 1..(i - 1) : SyncLog[j].op = "delete"
        /\ pc \in {"cleanup", "done"} =>
              /\ \E i \in 1..Len(SyncLog) : SyncLog[i].op = "create"
              /\ \A i \in 1..Len(store) : \A j \in 1..Len(listed) : store[i].id # listed[j].id

\* a finished full replace of a store of two records, one of them under a key
\* that is desired again: both were deleted, then the rows created
C3_Witness ==
    /\ FULL_REPLACE /\ pc = "done"
    /\ Len(listed) = 2
    /\ ListedKeys \cap RowKeys # {}
    /\ Len(SyncLog) = 2 /\ SyncLog[1].op = "delete" /\ SyncLog[2].op = "create"

\* the indices of the rows with key k
C7_Rows(k) == {i \in 1..Len(all_rows) : unique_key(all_rows[i]) = k}

C7_DescLen(i) == Len(GetStr(all_rows[i], "Beschreibung"))

\* the row that must survive for key k: the longest description, the first
\* seen among equally long ones
C7_Survivor(k) ==
    all_rows[CHOOSE i \in C7_Rows(k) :
                \A j \in C7_Rows(k) :
                    \/ C7_DescLen(j) < C7_DescLen(i)
                    \/ C7_DescLen(j) = C7_DescLen(i) /\ j >= i]

C7_SingleLongest(k) ==
    \E i \in C7_Rows(k) : \A j \in C7_Rows(k) \ {i} : C7_DescLen(j) < C7_DescLen(i)

C7_Permuted(f) == [i \in 1..Len(all_rows) |-> all_rows[f[i]]]

\* C4: in incremental mode a create is scheduled for a desired record (the
\* survivor of its key) exactly when no listed record has its key, once; with
\* nothing listed every desired record is created and nothing is updated or
\* deleted.
C4_IncrementalCreate ==
    (~FULL_REPLACE /\ Planned) =>
        /\ \A k \in RowKeys :
              (\E i \in 1..Len(to_create) : to_create[i] = C7_Survivor(k))
                  <=> k \notin ListedKeys
        /\ \A i \in 1..Len(to_create) :
              /\ unique_key(to_create[i]) \in RowKeys \ ListedKeys
              /\ to_create[i] = C7_Survivor(unique_key(to_create[i]))
        /\ Len(to_create) = Cardinality(RowKeys \ ListedKeys)
        /\ listed = <<>> =>
              /\ {to_create[i] : i \in 1..Len(to_create)} = {C7_Survivor(k) : k \in RowKeys}
              /\ to_update = <<>>
              /\ to_delete_ids = <<>>

\* a finished incremental sync with one desired key in the store and one not:
\* the record of the second was created
C4_Witness ==
    /\ ~FULL_REPLACE /\ pc = "done"
    /\ RowKeys \cap ListedKeys # {}
    /\ Len(to_create) = 1
    /\ \E i \in 1..Len(store) : store[i].id > Len(listed) /\ store[i].fields = to_create[1]

\* the listed record the sync joins with key k: the last one listed
C5_Joined(k) ==
    listed[CHOOSE i \in 1..Len(listed) :
              /\ unique_key(listed[i].fields) = k
              /\ \A j \in 1..Len(listed) : unique_key(listed[j].fields) = k => j <= i]

C5_Differing(des, old) == {f \in DOMAIN des : f \notin DOMAIN old \/ old[f] # des[f]}

\* C5: in incremental mode, for a desired record whose key is listed (joined
\* with the last listed record of that key), the one update scheduled carries
\* exactly the desired fields whose value differs from the existing record's,
\* with the desired values; fields only the existing record has are never in
\* it, and stay as they are when the update is applied; with no differing
\* field no update is scheduled for that record; no other update is scheduled.
C5_IncrementalUpdate ==
    (~FULL_REPLACE /\ Planned) =>
        /\ \A k \in RowKeys \cap ListedKeys :
              LET old  == C5_Joined(k)
                  des  == C7_Survivor(k)
                  d    == C5_Differing(des, old.fields)
                  ents == {i \in 1..Len(to_update) : to_update[i].id = old.id}
              IN  /\ d = {} => ents = {}
                  /\ d # {} =>
                        /\ Cardinality(ents) = 1
                        /\ \A i \in ents :
                              /\ DOMAIN to_update[i].fields = d
                              /\ \A f \in d : to_update[i].fields[f] = des[f]
                  /\ pc = "delete" =>
                        \E i \in 1..Len(store) :
                            /\ store[i].id = old.id
                            /\ DOMAIN store[i].fields = DOMAIN des \cup DOMAIN old.fields
                            /\ \A f \in DOMAIN des : store[i].fields[f] = des[f]
                            /\ \A f \in DOMAIN old.fields \ DOMAIN des :
                                  store[i].fields[f] = old.fields[f]
        /\ \A i \in 1..Len(to_update) :
              \E k \in RowKeys \cap ListedKeys : to_update[i].id = C5_Joined(k).id

\* updates applied: one record got its Beschreibung alone updated and kept
\* the column only it has; another desired record equals its existing record
\* and got no update
C5_Witness ==
    /\ ~FULL_REPLACE /\ pc = "delete"
    /\ Len(to_update) = 1
    /\ DOMAIN to_update[1].fields = {"Beschreibung"}
    /\ \E i \in 1..Len(store) :
          /\ store[i].id = to_update[1].id
          /\ "Notiz" \in DOMAIN store[i].fields
          /\ store[i].fields["Beschreibung"] = to_update[1].fields["Beschreibung"]
    /\ \E k \in RowKeys \cap ListedKeys : C7_Survivor(k) = C5_Joined(k).fields

\* C6 (as stated): in incremental mode delete_ids holds the id of every listed
\* record whose key is not a desired key, and of no record whose key is desired.
C6_Original ==
    (~FULL_REPLACE /\ Planned) =>
        \A i \in 1..Len(listed) :
            /\ unique_key(listed[i].fields) \notin RowKeys =>
                  \E j \in 1..Len(to_delete_ids) : to_delete_ids[j] = listed[i].id
            /\ unique_key(listed[i].fields) \in RowKeys =>
                  \A j \in 1..Len(to_delete_ids) : to_delete_ids[j] # listed[i].id

\* C7: in incremental mode the desired dict holds, for every key among the
\* rows, exactly one record: the row with the longest description, the first
\* seen of equally long ones; at most one mutation is scheduled per key; and
\* for a key with a single longest row the survivor is the same for every
\* order of the rows.
C7_Dedup ==
    (~FULL_REPLACE /\ Planned) =>
        /\ DOMAIN desired = RowKeys
        /\ \A k \in RowKeys :
              /\ desired[k] = C7_Survivor(k)
              /\ Cardinality({i \in 1..Len(to_create) : unique_key(to_create[i]) = k}) <= 1
              /\ C7_SingleLongest(k) =>
                    \A f \in Permutations(1..Len(all_rows)) :
                        desired_of(C7_Permuted(f), airtable_existing_fields, <<>>)[k]
                            = desired[k]

\* three rows of one key with descriptions of length 1, 2, 2: the second row
\* survived and was created
C7_Witness ==
    /\ ~FULL_REPLACE /\ pc = "done"
    /\ Len(all_rows) = 3
    /\ Cardinality(RowKeys) = 1
    /\ C7_DescLen(1) = 1 /\ C7_DescLen(2) = 2 /\ C7_DescLen(3) = 2
    /\ all_rows[2] # all_rows[3]
    /\ listed = <<>>
    /\ to_create = <<all_rows[2]>>
    /\ \E i \in 1..Len(store) : store[i].fields = all_rows[2]

C8_Level(fields) ==
    IF strip(GetStr(fields, "Objektnummer")) # "" THEN "obj"
    ELSE IF strip(GetStr(fields, "Webseite")) # "" THEN "url"
    ELSE "hash"

C8_IsIntText(s) ==
    LET d == IF StartsWith(s, "-") THEN SubSeq(s, 2, Len(s)) ELSE s
    IN  Len(d) > 0 /\ \A i \in 1..Len(d) : IsDigit(SubSeq(d, i, i))

\* C8: unique_key is total with a fixed fallback order: a record whose trimmed
\* Objektnummer is non-empty gets "obj:<Objektnummer>", otherwise one whose
\* trimmed Webseite is non-empty gets "url:<Webseite>", otherwise the key is
\* "hash:<integer>"; keys of different fallback levels differ, and two records
\* with the same non-empty Objektnummer get the same key whatever else they hold.
C8_KeyDerivation ==
    kcur.done =>
        /\ kcur.key # ""
        /\ C8_Level(kcur.fields) = "obj" =>
               kcur.key = "obj:" \o strip(kcur.fields["Objektnummer"])
        /\ C8_Level(kcur.fields) = "url" =>
               kcur.key = "url:" \o strip(kcur.fields["Webseite"])
        /\ C8_Level(kcur.fields) = "hash" =>
               /\ StartsWith(kcur.key, "hash:")
               /\ C8_IsIntText(SubSeq(kcur.key, 6, Len(kcur.key)))
        /\ kprev.done =>
               /\ C8_Level(kprev.fields) # C8_Level(kcur.fields) => kprev.key # kcur.key
               /\ ( /\ C8_Level(kcur.fields) = "obj"
                    /\ GetStr(kprev.fields, "Objektnummer") = kcur.fields["Objektnummer"] )
                  => kprev.key = kcur.key

\* two records with one Objektnummer and different other fields, the second
\* also holding a Webseite; and an earlier one keyed by content hash
C8_Witness ==
    /\ kprev.done /\ kcur.done
    /\ kcur.fields # kprev.fields
    /\ "Webseite" \in DOMAIN kcur.fields /\ strip(kcur.fields["Webseite"]) # ""
    /\ GetStr(kprev.fields, "Objektnummer") = " A "
    /\ GetStr(kcur.fields, "Objektnummer") = " A "
    /\ kcur.key = "obj:A" /\ kprev.key = "obj:A"

C9_Lacks(r, f) == f \notin DOMAIN r \/ strip(r[f]) = ""

\* the fields holding a non-blank string or a positive number
C9_Populated(r) ==
    {f \in DOMAIN r : IF f \in NumFields THEN r[f] > 0 ELSE strip(r[f]) # ""}

\* the fields holding a non-empty string or a non-zero number
C9_NonEmptyNonZero(r) ==
    {f \in DOMAIN r : IF f \in NumFields THEN r[f] # 0 ELSE strip(r[f]) # ""}

C9_InvalidAmended(r) ==
    \/ C9_Lacks(r, "Titel")
    \/ C9_Lacks(r, "Webseite")
    \/ Cardinality(C9_Populated(r)) < 3

C9_InvalidOriginal(r) ==
    \/ C9_Lacks(r, "Titel") /\ C9_Lacks(r, "Webseite")
    \/ Cardinality(C9_NonEmptyNonZero(r)) < 3

C9_Agrees(Invalid(_)) ==
    /\ (vmode = "filter" /\ vres = "ok") =>
          vout = SelectSeq(vrecs, LAMBDA r : ~Invalid(r))
    /\ (vmode = "sweep" /\ vres = "ok") =>
          /\ vdel = {i \in 1..Len(vrecs) : Invalid(vrecs[i])}
          /\ vout = SelectSeq(AsStore(vrecs), LAMBDA e : ~Invalid(e.fields))

\* C9 (as amended): a record is invalid (dropped by the filter, deleted by a
\* sweep that runs to its end) exactly when it lacks a title, or lacks a source
\* URL, or has fewer than 3 fields holding a non-blank string or a positive
\* number; a record with a title and a URL and nothing else is invalid, and a
\* sweep that fails part-way has deleted invalid records only.
C9_Validity ==
    /\ C9_Agrees(C9_InvalidAmended)
    /\ (vmode = "sweep" /\ vres # "") =>
          \A i \in vdel : C9_InvalidAmended(vrecs[i])
    /\ (vmode = "sweep" /\ vres = "ok") =>
          \A i \in 1..Len(vrecs) :
              C9_Populated(vrecs[i]) = {"Titel", "Webseite"} => i \in vdel

\* a completed sweep that deleted a record with a title and a URL only, and a
\* record with a title, no URL and three populated fields
C9_Witness ==
    /\ vmode = "sweep" /\ vres = "ok"
    /\ \E i \in vdel : C9_Populated(vrecs[i]) = {"Titel", "Webseite"}
    /\ \E i \in vdel : C9_Populated(vrecs[i]) = {"Titel", "Preis", "Standort"}

\* C9 (as stated): a record is invalid exactly when it lacks both a title and a
\* source URL, or has fewer than 3 non-empty/non-zero fields.
C9_Original == C9_Agrees(C9_InvalidOriginal)

(***************************************************************************)
(* C1, C2: the enrichment calls and the cache.                             *)
(***************************************************************************)
\* the object key a call was made with
CallKey(c) == IF c.fn = "classify" THEN c.args[3] ELSE c.args[10]

\* what the enrichment cache holds for the call
CallCached(c) ==
    IF c.fn = "classify" THEN DictGet(UNTERKATEGORIE_CACHE, CallKey(c))
    ELSE DictGet(KURZBESCHREIBUNG_CACHE, CallKey(c))

\* the call was made with a non-empty object key the cache holds a non-empty
\* value for
CacheHit(c) == c.fn # "" /\ CallKey(c) # "" /\ CallCached(c) # ""

\* C1: a call of classify or summarize with a non-empty object key for which the
\* cache holds a non-empty value returns the cached value and leaves the number
\* of model calls as it was, with or without a model key.
C1_CacheHitNoModelCall ==
    CacheHit(ecur) =>
        /\ ecur.out = CallCached(ecur)
        /\ ~ecur.called
        /\ model_calls = ecur.before

\* C1 witness: with a model key configured and a model that would answer, a
\* summarize call and then a classify call both hit the cache.
C1_Witness ==
    /\ OPENAI_API_KEY # ""
    /\ eprev.fn = "summarize" /\ CacheHit(eprev) /\ eprev.response.ok
    /\ ecur.fn = "classify" /\ CacheHit(ecur) /\ ecur.response.ok
    /\ ecur.out = "Wohnung" /\ ecur.response.content = "Villa"

\* the last two calls were the same function with the same arguments (the cache
\* does not change between calls)
C2_SameCall == eprev.fn # "" /\ eprev.fn = ecur.fn /\ eprev.args = ecur.args

\* the two calls took the model path: no cache hit, and a model key
C2_ModelPath == ~CacheHit(ecur) /\ OPENAI_API_KEY # ""

\* C2 (amended): two calls of summarize (resp. classify) with the same arguments
\* and the same cache state yield the same output on the cache-hit path and on
\* the no-model path, whatever the model service would answer; on the model path
\* they yield the same output whenever the service gives both calls the same
\* answer.
C2_Idempotent ==
    (C2_SameCall /\ (C2_ModelPath => eprev.response = ecur.response))
        => eprev.out = ecur.out

\* C2 witness: the same summarize call twice on the model path, answered the
\* same both times, and the same output both times.
C2_Witness ==
    /\ C2_SameCall /\ C2_ModelPath
    /\ ecur.fn = "summarize"
    /\ eprev.called /\ ecur.called
    /\ ecur.response.ok /\ eprev.response = ecur.response
    /\ eprev.out = ecur.out /\ ecur.out # ""

\* C2 as stated: two calls with the same arguments and the same cache state
\* yield the same output on every path, the model path included.
C2_Original == C2_SameCall => eprev.out = ecur.out

(***************************************************************************)
(* C10: the rent override.                                                 *)
(***************************************************************************)
\* the rent-labeled figures found in the listing document, in order
C10_Figures == miete_findall(xlisting.titel \o "\n" \o xlisting.body)

\* those whose value is above the floor
C10_Counted == SelectSeq(C10_Figures, LAMBDA m : AboveFloor(figure_value(m)))

\* C10 (amended): whenever a rent-labeled figure whose value is greater than 100
\* is found in the listing document, the assembled listing and its record have
\* category Mieten and the price is the first such figure, for every overview
\* hint, every classifier result and every other currency figure in the text.
C10_RentOverride ==
    xpc \in {"record", "done"} =>
        \A counted \in {C10_Counted} :
            Len(counted) > 0 =>
                /\ xprop.kategorie = "Mieten"
                /\ xprop.preis = counted[1] \o " $"
                /\ xpc = "done" =>
                     /\ xrecord.Kategorie = "Mieten"
                     /\ "Preis" \in DOMAIN xrecord
                     /\ FloatEq(xrecord.Preis, figure_value(counted[1]))

\* C10 witness: a listing under a Kaufen hint, classified Gewerbe, whose document
\* holds a rent figure above 100 and a larger figure elsewhere, is recorded with
\* category Mieten and the rent figure as its price.
C10_Witness ==
    /\ xpc = "done"
    /\ Len(C10_Counted) > 0
    /\ overview_kategorie_of(xheader) = "Kaufen"
    /\ xrecord.Unterkategorie = "Gewerbe"
    /\ extract_preis(lower(xlisting.body)) = "3.000 $"
    /\ xprop.preis = "1.200,50 $"
    /\ xrecord.Kategorie = "Mieten"

\* C10 as stated: whenever a rent-labeled figure is found in the listing
\* document, the record has category Mieten and its price is that figure.
C10_Original ==
    xpc = "done" =>
        \A figures \in {C10_Figures} :
            Len(figures) > 0 =>
                /\ xrecord.Kategorie = "Mieten"
                /\ \E n \in 1..Len(figures) : xprop.preis = figures[n] \o " $"

(***************************************************************************)
(* C11: the priority of the keyword heuristic.                             *)
(***************************************************************************)
\* the keyword score of a label for the text of a call
C11_Score(keys, c) == Score(keys, lower(c.args[1] \o " " \o c.args[2]))

\* the label the stated priority gives for the four scores
C11_Stated(grundstueck, gewerbe, wohnung, haus) ==
    IF grundstueck >= 1 THEN "Grundstueck"
    ELSE IF gewerbe >= 2 THEN "Gewerbe"
    ELSE IF wohnung >= 1 /\ wohnung >= haus THEN "Wohnung"
    ELSE "Haus"

\* the call was answered by heuristic_subcategory: no cache hit, no model key
C11_ByHeuristic(c) == c.fn = "classify" /\ ~CacheHit(c) /\ OPENAI_API_KEY = ""

\* C11 as stated: the heuristic returns Grundstück if its score is at least 1,
\* else Gewerbe if its score is at least 2, else the higher-scoring of Wohnung
\* and Haus if that score is at least 1, else Haus; Gewerbe is never returned
\* when its score is below 2.
C11_Original ==
    C11_ByHeuristic(ecur) =>
        /\ ecur.out = C11_Stated(C11_Score(KEYS_GRUNDSTUECK, ecur),
                                 C11_Score(KEYS_GEWERBE, ecur),
                                 C11_Score(KEYS_WOHNUNG, ecur),
                                 C11_Score(KEYS_HAUS, ecur))
        /\ ecur.out = "Gewerbe" => C11_Score(KEYS_GEWERBE, ecur) >= 2

(***************************************************************************)
(* C12: the closed set of sub-categories.                                  *)
(***************************************************************************)
\* C12 as stated: classify returns one of Wohnung, Haus, Gewerbe, Grundstück on
\* every path, the cache hit included, whatever the store held for the key.
C12_Original == ecur.fn = "classify" => ecur.out \in ValidLabels

(***************************************************************************)
(* C13: a failed model call.                                               *)
(***************************************************************************)
\* the scraped-data map generate_kurzbeschreibung builds from its arguments
C13_Scraped(c) ==
    [kategorie |-> c.args[3], preis |-> c.args[4], standort |-> c.args[5],
     zimmer |-> c.args[6], wohnflaeche |-> c.args[7], grundstueck |-> c.args[8],
     baujahr |-> c.args[9]]

\* the call missed the cache with a model key set, and the request failed or
\* (classify) was answered with a text that is not one of the four labels
C13_Failed(c) ==
    /\ c.fn # "" /\ ~CacheHit(c) /\ OPENAI_API_KEY # ""
    /\ \/ ~c.response.ok
       \/ /\ c.fn = "classify"
          /\ replace(strip(c.response.content), ".", "") \notin ValidLabels

\* C13: on a cache miss with a model key, when the request fails (or classify is
\* answered with a text outside the four labels), the call still returns:
\* classify returns heuristic_subcategory(titel, beschreibung) and summarize the
\* summary built from the scraped values alone, as without a model key.
C13_FailureFallsBack ==
    \A c \in {eprev, ecur} :
        C13_Failed(c) =>
            /\ c.called
            /\ c.fn = "classify" => c.out = heuristic_subcategory(c.args[1], c.args[2])
            /\ c.fn = "summarize" => c.out = normalize_kurzbeschreibung("", C13_Scraped(c))

\* C13 witness: a summarize request fails and the summary holds the scraped
\* values; the next call, a classify answered with "Villa", returns the
\* heuristic's label.
C13_Witness ==
    /\ eprev.fn = "summarize" /\ C13_Failed(eprev) /\ ~eprev.response.ok
    /\ eprev.out = "Wohnflaeche: 80 m^2\nZimmer: 3\nPreis: 1234 $"
    /\ ecur.fn = "classify" /\ C13_Failed(ecur) /\ ecur.response.content = "Villa"
    /\ ecur.out = "Gewerbe"

(***************************************************************************)
(* C14, C15: the schema of the summary.                                    *)
(***************************************************************************)
\* the lines of a summary (none for the empty text)
C14_Lines(out) == IF out = "" THEN <<>> ELSE split(out, "\n")

\* the field name of a line: the text before its first colon ("" without one)
C14_FieldOf(line) == IF Contains(":", line) THEN SplitOnce(line, ":")[1] ELSE ""

\* the place of a field name in the canonical order (0: not one of the nine)
C14_Index(field) ==
    IF \E i \in 1..Len(KURZBESCHREIBUNG_FIELDS) : KURZBESCHREIBUNG_FIELDS[i] = field
    THEN CHOOSE i \in 1..Len(KURZBESCHREIBUNG_FIELDS) : KURZBESCHREIBUNG_FIELDS[i] = field
    ELSE 0

\* a summarize call that went through normalize_kurzbeschreibung
C14_Normalized(c) == c.fn = "summarize" /\ ~CacheHit(c)

\* what the model provided: the key/value lines of its answer
C14_Provided(c) ==
    IF c.called /\ c.response.ok
    THEN parse_lines(split(strip(c.response.content), "\n"), 1, <<>>)
    ELSE <<>>

\* C14 as stated: for every model output and every scraped-data map the text
\* normalize_kurzbeschreibung returns has only lines whose field name is one of
\* the nine, each at most once and in the canonical order, and a value the
\* model provided for a field is the value of that field's line.
C14_Original ==
    C14_Normalized(ecur) =>
        \A lines \in {C14_Lines(ecur.out)}, provided \in {C14_Provided(ecur)} :
            /\ \A i \in 1..Len(lines) : C14_Index(C14_FieldOf(lines[i])) > 0
            /\ \A i, j \in 1..Len(lines) :
                  i < j => C14_Index(C14_FieldOf(lines[i])) < C14_Index(C14_FieldOf(lines[j]))
            /\ \A f \in DOMAIN provided :
                  C14_Index(f) > 0 =>
                      \E i \in 1..Len(lines) : lines[i] = f \o ": " \o provided[f]

\* a line of the form "Field: value", with a field name and a value that is no
\* placeholder
C15_FieldLine(line) ==
    /\ Contains(": ", line)
    /\ \A kv \in {SplitOnce(line, ":")} :
          /\ strip(kv[1]) # ""
          /\ strip(kv[2]) \notin Placeholders

\* C15 as stated: the summary of every record is one or more "Field: value"
\* lines, with no placeholder and no blank line.
C15_Original ==
    xpc = "done" =>
        \A lines \in {split(xrecord.Kurzbeschreibung, "\n")} :
            /\ xrecord.Kurzbeschreibung # ""
            /\ \A i \in 1..Len(lines) : strip(lines[i]) # "" /\ C15_FieldLine(lines[i])

(***************************************************************************)
(* C16, C17: the life of the enrichment cache.                             *)
(***************************************************************************)
\* field f of the store's i-th record, trimmed
C16_Trimmed(i, f) == strip(GetStr(store[i].fields, f))

\* the records with the (trimmed) object key k and a non-blank field f
C16_Sources(k, f) ==
    {i \in 1..Len(store) : C16_Trimmed(i, "Objektnummer") = k /\ C16_Trimmed(i, f) # ""}

\* for every non-blank object key with such a record, the trimmed field of the
\* last of them
C16_Expected(f) ==
    [k \in {C16_Trimmed(i, "Objektnummer") :
                i \in {j \in 1..Len(store) : C16_Trimmed(j, f) # ""}} \ {""} |->
        C16_Trimmed(CHOOSE i \in C16_Sources(k, f) : \A j \in C16_Sources(k, f) : j <= i, f)]

\* C16 (amended): load_caches runs once, before any listing is enriched. With
\* store credentials, in incremental mode and when the listing of the store
\* succeeds, the caches then hold, for every trimmed non-blank object key of a
\* store record, the trimmed summary (sub-category) of the last record with
\* that key whose summary (sub-category) is not blank, and nothing else. In
\* full-replace mode, without credentials and when the listing fails, the two
\* caches are empty.
C16_Populated ==
    /\ cache_status = "loaded" =>
          /\ ~FULL_REPLACE
          /\ KURZBESCHREIBUNG_CACHE = C16_Expected("Kurzbeschreibung")
          /\ UNTERKATEGORIE_CACHE = C16_Expected("Unterkategorie")
    /\ cache_status # "loaded" =>
          /\ KURZBESCHREIBUNG_CACHE = <<>>
          /\ UNTERKATEGORIE_CACHE = <<>>
    /\ (cache_status = "skipped") => FULL_REPLACE

\* C16 witness: two store records share the object key A; after the load the
\* summary cache holds the summary of the second and the sub-category cache its
\* trimmed sub-category.
C16_Witness ==
    /\ cache_status = "loaded"
    /\ Len(store) = 2
    /\ store[1].fields = [Objektnummer |-> "A", Kurzbeschreibung |-> "Zimmer: 2"]
    /\ GetStr(store[2].fields, "Kurzbeschreibung") = "Zimmer: 3"
    /\ KURZBESCHREIBUNG_CACHE = [k \in {"A"} |-> "Zimmer: 3"]
    /\ UNTERKATEGORIE_CACHE = [k \in {"A"} |-> "Villa"]

\* C16 as stated: in every run with store credentials, in both sync modes, after
\* the load the caches hold a summary and a sub-category for every store record
\* with a non-empty object key and a non-empty value for the field.
C16_Original ==
    cache_status \notin {"", "unconfigured"} =>
        \A i \in 1..Len(store) :
            C16_Trimmed(i, "Objektnummer") # "" =>
                /\ C16_Trimmed(i, "Kurzbeschreibung") # "" =>
                      C16_Trimmed(i, "Objektnummer") \in DOMAIN KURZBESCHREIBUNG_CACHE
                /\ C16_Trimmed(i, "Unterkategorie") # "" =>
                      C16_Trimmed(i, "Objektnummer") \in DOMAIN UNTERKATEGORIE_CACHE

\* C17: once load_caches has run, no step changes the summary cache or the
\* sub-category cache: a classify or summarize call, on a hit or a miss, leaves
\* both as they were.
C17_ReadOnly ==
    [][cache_status # "" =>
          /\ KURZBESCHREIBUNG_CACHE' = KURZBESCHREIBUNG_CACHE
          /\ UNTERKATEGORIE_CACHE' = UNTERKATEGORIE_CACHE]_vars

\* C17 witness: the same classify call with the object key A twice; the model
\* answered the first with a label, and the second call finds nothing in the
\* cache and asks the model again.
C17_Witness ==
    /\ eprev.fn = "classify" /\ ecur.fn = "classify" /\ eprev.args = ecur.args
    /\ CallKey(eprev) = "A"
    /\ eprev.called /\ eprev.response.ok /\ eprev.out = "Wohnung"
    /\ ecur.called /\ ecur.before = 1
    /\ "A" \notin DOMAIN UNTERKATEGORIE_CACHE

\* C18 as stated: once the probe has succeeded no failure of a single step ends
\* the run: an exception of a store call of the sync is caught as well, so the
\* run never stops on a failed listing of the store or on a failed batch.
C18_Original == (reachable = "yes") => pc \notin {"list_failed", "aborted"}

\* the run is past the validation and no scraped record was valid
C19_NoValidRecord ==
    pc \notin {"probe", "collect", "validate"} /\ filter_valid_records(scraped) = <<>>

\* one of the three gates is shut
C19_Shut == reachable = "no" \/ AIRTABLE_TOKEN = "" \/ C19_NoValidRecord

\* C19: a step into a state where the probe has failed, the store credentials
\* are absent or no valid record was scraped leaves the store as it was, no
\* request that creates, updates or deletes has been issued, and the run is
\* before the sync or has returned normally; when it has returned, a failed
\* probe left the header-only export, absent credentials with valid records
\* left the export of these records, no valid record left no export.
C19_Gated ==
    [][C19_Shut' =>
          /\ store' = store
          /\ log' = <<>>
          /\ pc' \in {"probe", "collect", "validate", "export", "done"}
          /\ (pc' = "done" /\ reachable' = "no") => csv_file' = CsvFile(<<>>)
          /\ (pc' = "done" /\ reachable' = "yes" /\ ~C19_NoValidRecord') =>
                /\ all_rows' = filter_valid_records(scraped')
                /\ csv_file' = CsvFile(all_rows')
          /\ (pc' = "done" /\ reachable' = "yes" /\ C19_NoValidRecord') =>
                csv_file' = NoFile]_vars

\* C19 witness: a run without store credentials has returned: of two scraped
\* records the valid one is in the export, and the store, which held an
\* invalid record, got no request.
C19_Witness ==
    /\ AIRTABLE_TOKEN = "" /\ reachable = "yes" /\ pc = "done"
    /\ Len(scraped) = 2 /\ Len(all_rows) = 1
    /\ csv_file = CsvFile(all_rows)
    /\ Len(store) = 1 /\ ~is_valid_record(store[1].fields)
    /\ log = <<>>

\* the failures soup_get retries: a connection failure, a timeout, HTTP 403/429
C20_Retried(answer) ==
    \/ answer.error \in {"ConnectionError", "Timeout"}
    \/ answer.error = "" /\ answer.status \in {403, 429}

\* the wait after the failed attempt n (counted from 0), in seconds
C20_Backoff(answer, n) == IF answer.error = "" THEN 5 * (2 ^ n) ELSE 2 * (2 ^ n)

C20_Raised == fetch_pc \notin {"", "call", "returned"}

\* one call of soup_get, at any point of it
C20_Call ==
    fetch_pc # "" =>
        /\ requests_made = Len(answers)
        /\ requests_made <= max_retries
        /\ Len(waits) = attempt
        /\ \A i \in 1..Len(waits) :
              C20_Retried(answers[i]) /\ waits[i] = C20_Backoff(answers[i], i - 1)
        /\ (fetch_pc = "call") => Len(answers) = Len(waits)
        /\ (fetch_pc = "returned") =>
              /\ Len(answers) = Len(waits) + 1
              /\ answers[Len(answers)] = HttpStatus(200)
        /\ C20_Raised =>
              /\ requests_made >= 1
              /\ fetch_pc = ErrorName(answers[Len(answers)])
              /\ IF C20_Retried(answers[Len(answers)])
                 THEN Len(answers) = Len(waits) /\ requests_made = max_retries
                 ELSE Len(answers) = Len(waits) + 1

\* the caller of a call that raised: a listing is given up and the loop goes
\* on with the next listing, if there is one; without the overview page there
\* is no listing
C20_Caller ==
    C20_Raised =>
        /\ loaded' = loaded
        /\ IF fetch_stage = "overview"
           THEN skipped' = skipped /\ fetch_stage' = "end"
           ELSE /\ skipped' = skipped \cup {listing_no}
                /\ IF listing_no < MaxListings
                   THEN /\ listing_no' = listing_no + 1
                        /\ fetch_stage' = "detail"
                        /\ fetch_pc' = "call" /\ requests_made' = 0
                   ELSE fetch_stage' = "end"

\* C20: soup_get retries a connection failure, a timeout and HTTP 403/429, with
\* a wait of 2 * 2^attempt seconds (5 * 2^attempt after 403/429), until
\* max_retries requests were made, and then raises the last error; any other
\* HTTP error and any other exception is raised at once, without a retry; a
\* call never makes more than max_retries requests; the caller of a call that
\* raised gives the listing up and goes on with the next.
C20_Policy == []C20_Call /\ [][C20_Caller]_vars

\* C20 witness: the first listing was given up; the call for the detail page of
\* the second met HTTP 403, waited 5 s, met a timeout, waited 4 s, and raised
\* the timeout after its two requests.
C20_Witness ==
    /\ fetch_stage = "detail" /\ listing_no = 2 /\ 1 \in skipped
    /\ max_retries = 2 /\ requests_made = 2
    /\ answers = <<HttpStatus(403), RequestError("Timeout")>>
    /\ waits = <<5, 4>>
    /\ fetch_pc = "Timeout"

\* C20 as stated: every transport error is retried, other HTTP errors as well,
\* so a call raises only after max_retries requests.
C20_Original == C20_Raised => requests_made = max_retries

\* C21 as stated: every record of the set that is exported and handed to the
\* sync has a non-empty object key, and no two of them share one.
C21_Original ==
    \A i, j \in 1..Len(all_rows) :
        /\ all_rows[i].Objektnummer # ""
        /\ (i # j) => all_rows[i].Objektnummer # all_rows[j].Objektnummer

\* the incremental sync of this run has scheduled its mutations
C22_Scheduled ==
    ~FULL_REPLACE /\ pc \in {"create", "update", "delete", "cleanup", "done", "aborted"}

\* C22 as stated: a listing that is linked on the overview page, whose documents
\* could not be loaded in this run and whose record would have been valid, keeps
\* its store record: the incremental sync does not schedule the store record
\* with that listing's key for deletion.
C22_Original ==
    C22_Scheduled =>
        \A i \in 1..Len(detail_data) :
            (~detail_data[i].ok /\ is_valid_record(ListingRow(detail_data[i]))) =>
                \A j \in 1..Len(listed) :
                    unique_key(listed[j].fields) = unique_key(ListingRow(detail_data[i])) =>
                        \A d \in 1..Len(to_delete_ids) : to_delete_ids[d] # listed[j].id

\* the incremental sync is in or past its mutation sequence, the sweep not yet run
C23_Mutating == ~FULL_REPLACE /\ pc \in {"create", "update", "delete", "cleanup", "aborted"}

\* the place of a request kind in the order creates, updates, deletes
C23_Rank(op) == IF op = "create" THEN 1 ELSE IF op = "update" THEN 2 ELSE 3

\* the keys of the records of a store
C23_Keys(st) == {unique_key(st[i].fields) : i \in 1..Len(st)}

\* C23: in incremental mode the requests go out in the order creates, updates,
\* deletes; no record whose key is in the desired set is scheduled for deletion
\* and no desired record whose key was listed is created again; so in every
\* state of the mutation sequence, a state left by a failed batch included,
\* every listed record with a desired key is still in the store under that key.
C23_KeysKept ==
    C23_Mutating =>
        /\ \A i, j \in 1..Len(log) : (i < j) => C23_Rank(log[i].op) <= C23_Rank(log[j].op)
        /\ \A j \in 1..Len(listed) :
              unique_key(listed[j].fields) \in DOMAIN desired =>
                  /\ \A d \in 1..Len(to_delete_ids) : to_delete_ids[d] # listed[j].id
                  /\ \E r \in 1..Len(store) :
                        /\ store[r].id = listed[j].id
                        /\ unique_key(store[r].fields) = unique_key(listed[j].fields)
        /\ \A c \in 1..Len(to_create) : unique_key(to_create[c]) \notin C23_Keys(listed)
        /\ (DOMAIN desired \cap C23_Keys(listed)) \subseteq C23_Keys(store)

\* C23 witness: the create and the update went out, then the delete batch
\* failed: the record with the desired key A is still in the store, and so is
\* the record that was to be deleted.
C23_Witness ==
    /\ ~FULL_REPLACE /\ pc = "aborted"
    /\ Len(log) = 2 /\ log[1].op = "create" /\ log[2].op = "update"
    /\ Len(to_delete_ids) = 1
    /\ "obj:A" \in DOMAIN desired \cap C23_Keys(listed) \cap C23_Keys(store)
    /\ Len(store) = 3

\* the incremental sync has applied all its mutations; the sweep has not run
C24_Applied == ~FULL_REPLACE /\ pc = "cleanup"

\* C24 as stated: when the create, update and delete sets were applied
\* completely, reconciling the same rows against the store as it is now
\* schedules nothing, whatever the store held before.
C24_Original ==
    C24_Applied =>
        \E again \in {incremental_plan(store, all_rows)} :
            again.create = <<>> /\ again.update = <<>> /\ again.delete = <<>>

\* C25 as stated: after a completely applied incremental sync and before the
\* sweep the store holds one record for every desired key, no two records
\* with one key and no record with another key, whatever the store held
\* before, several records with one key included.
C25_Original ==
    (~FULL_REPLACE /\ pc = "cleanup") =>
        /\ {unique_key(store[i].fields) : i \in 1..Len(store)} = DOMAIN desired
        /\ \A i, j \in 1..Len(store) :
              (i # j) => unique_key(store[i].fields) # unique_key(store[j].fields)

=============================================================================
